---- MODULE Spec2Model ----
(***************************************************************************)
(* State-machine model of the LinkedIn scraping pipeline                   *)
(* (src/linkedin_scraper.py, class LinkedInScraper) and of the caller that *)
(* drives one run of it (src/app.py, main).                                *)
(*                                                                         *)
(* Five specifications share the module:                                   *)
(*   SpecWriter  the dataset writer at the end of scrape_multiple_profiles *)
(*               applied run after run to the cumulative CSV file;         *)
(*   Spec        one run of main: construct, login, scrape every profile,  *)
(*               write, close;                                             *)
(*   SpecPost    the assembly of one PostRecord in extract_posts from the  *)
(*               raw texts of one container.                               *)
(*   SpecFun     one call of parse_count, parse_date or is_original_post   *)
(*               on arguments drawn in the initial state.                  *)
(*   SpecScrape  scrape_multiple_profiles called on a scraper whose        *)
(*               logged_in flag is not set.                                *)
(***************************************************************************)
EXTENDS Integers, Sequences, FiniteSets, TLC

VARIABLES
    \* ---- data/ directory (SpecWriter, Spec)
    output_file,    \* data/linkedin_original_posts.csv: [exists, rows]
    session_file,   \* data/linkedin_posts_<session_id>.csv of the last run: [exists, rows]
    runs,           \* number of scraper objects constructed so far (= session ids used)
    log,            \* history: every record handed to the writer, in write order
    last_posts,     \* history: all_posts of the latest writer call
    op,             \* history: the latest writer step ("none", "write", "rewrite")
    cum_before,     \* history: output_file just before the latest writer step
    \* ---- one call of extract_posts (SpecPost)
    browser_page,   \* the rendered activity page in the browser
    clock,          \* the time datetime.now() gives while the page is processed
    self_max_posts, \* self.max_posts
    self_debug,     \* self.debug
    captures,       \* history: the debug screenshots the latest call of
                    \* extract_posts wrote, in order
    posts,          \* what extract_posts returned (posts, line 993)
    ppc,            \* "ready" before the call, "extracted" after it
    \* ---- one run of main (Spec)
    pc,             \* where main stands: "button", "login", "await_ack", "scrape",
                    \* "close", "done" ("idle" outside Spec)
    creds,          \* LINKEDIN_EMAIL and LINKEDIN_PASSWORD are both set
    driver,         \* the browser: "none", "open", "closed"
    logged_in,      \* self.logged_in
    auth,           \* history: what login saw after submitting: [seen, landmark, challenge]
    acked,          \* history: input() returned (the operator pressed Enter)
    profile_urls,   \* the list main passes to scrape_multiple_profiles
    idx,            \* position of the for loop over profile_urls (1-based)
    status,         \* history: per profile, the state of its pipeline
    contrib,        \* history: per profile, the records it added to run_posts
    run_posts,      \* all_posts of scrape_multiple_profiles
    ret,            \* what scrape_multiple_profiles returned to main
    shown,          \* the message main shows: "none", "success", "warning",
                    \* "login_failed", "error", "no_credentials"
    events,         \* history: the steps of scrape_multiple_profiles, in the
                    \* order they finished: [step, profile, ok, delay]
    \* ---- one call of a parser or of the classifier (SpecFun)
    call,           \* the method called and its arguments
    result          \* what the call returned ([pending |-> TRUE] before it)

writerVars == <<output_file, session_file, runs, log, last_posts, op, cum_before>>
postVars == <<browser_page, clock, self_max_posts, self_debug, captures, posts, ppc>>
runVars == <<pc, creds, driver, logged_in, auth, acked, profile_urls, idx, status,
             contrib, run_posts, ret, shown, events>>
funVars == <<call, result>>

vars == <<output_file, session_file, runs, log, last_posts, op, cum_before,
          browser_page, clock, self_max_posts, self_debug, captures, posts, ppc,
          pc, creds, driver, logged_in, auth, acked, profile_urls, idx, status,
          contrib, run_posts, ret, shown, events,
          call, result>>

(***************************************************************************)
(* Generic helpers                                                         *)
(***************************************************************************)
\* All sequences over S of length 0..n.
SeqsUpTo(S, n) == UNION {[1..k -> S] : k \in 0..n}

Range(s) == {s[i] : i \in 1..Len(s)}

(***************************************************************************)
(* Text.  A str is a sequence of one-character strings, so that searches   *)
(* and regular expressions are computed character by character.            *)
(***************************************************************************)
Digits == <<"0", "1", "2", "3", "4", "5", "6", "7", "8", "9">>
UpperCase == <<"A", "B", "C", "D", "E", "F", "G", "H", "I", "J", "K", "L", "M",
               "N", "O", "P", "Q", "R", "S", "T", "U", "V", "W", "X", "Y", "Z">>
LowerCase == <<"a", "b", "c", "d", "e", "f", "g", "h", "i", "j", "k", "l", "m",
               "n", "o", "p", "q", "r", "s", "t", "u", "v", "w", "x", "y", "z">>

DigitSet == {Digits[i] : i \in 1..Len(Digits)}
SpaceSet == {" ", "\n", "\t"}
IsDigit(c) == c \in DigitSet
DigitVal(c) == (CHOOSE i \in 1..Len(Digits) : Digits[i] = c) - 1
IsSpace(c) == c \in SpaceSet

\* str.lower() / toLowerCase() of one character and of a text.
LowerChar(c) ==
    IF \E i \in 1..Len(UpperCase) : UpperCase[i] = c
    THEN LowerCase[CHOOSE i \in 1..Len(UpperCase) : UpperCase[i] = c]
    ELSE c
Lower(t) == [i \in 1..Len(t) |-> LowerChar(t[i])]

\* t[i..] starts with the word w.
StartsAt(t, i, w) ==
    /\ i + Len(w) - 1 <= Len(t)
    /\ \A j \in 1..Len(w) : t[i + j - 1] = w[j]

\* w in t
Contains(t, w) == \E i \in 1..(Len(t) + 1) : StartsAt(t, i, w)

\* First index >= i whose character is not in the class, Len(t)+1 if none:
\* the end of a greedy run  [class]*  that starts at i.
RunEnd(t, i, class) ==
    IF i > Len(t) THEN i
    ELSE CHOOSE j \in i..(Len(t) + 1) :
            /\ j > Len(t) \/ t[j] \notin class
            /\ \A k \in i..(j - 1) : t[k] \in class

\* str.strip()
RECURSIVE LStrip(_)
LStrip(t) == IF t # <<>> /\ IsSpace(t[1]) THEN LStrip(Tail(t)) ELSE t
RECURSIVE RStrip(_)
RStrip(t) ==
    IF t # <<>> /\ IsSpace(t[Len(t)]) THEN RStrip(SubSeq(t, 1, Len(t) - 1)) ELSE t
Strip(t) == RStrip(LStrip(t))

\* The decimal value of a run of digits.
RECURSIVE DigitsVal(_)
DigitsVal(ds) ==
    IF ds = <<>> THEN 0 ELSE 10 * DigitsVal(SubSeq(ds, 1, Len(ds) - 1)) + DigitVal(ds[Len(ds)])

RECURSIVE Pow10(_)
Pow10(n) == IF n = 0 THEN 1 ELSE 10 * Pow10(n - 1)

\* The characters of t that are in the class, in order.
Keep(t, class) == SelectSeq(t, LAMBDA c : c \in class)

W_like == <<"l", "i", "k", "e">>
W_reaction == <<"r", "e", "a", "c", "t", "i", "o", "n">>
W_comment == <<"c", "o", "m", "m", "e", "n", "t">>
W_repost == <<"r", "e", "p", "o", "s", "t">>
W_share == <<"s", "h", "a", "r", "e">>
W_ago == <<"a", "g", "o">>
W_now == <<"n", "o", "w">>
W_minute == <<"m", "i", "n", "u", "t", "e">>
W_hour == <<"h", "o", "u", "r">>
W_day == <<"d", "a", "y">>
W_week == <<"w", "e", "e", "k">>
W_month == <<"m", "o", "n", "t", "h">>
W_year == <<"y", "e", "a", "r">>
W_mo == <<"m", "o">>
W_yr == <<"y", "r">>
W_just_now == <<"j", "u", "s", "t", " ", "n", "o", "w">>
W_Unknown_date == <<"U", "n", "k", "n", "o", "w", "n", " ", "d", "a", "t", "e">>

(***************************************************************************)
(* Numbers.  A Python int or float and a JavaScript number is the exact    *)
(* decimal n / 10^d, kept normalised (d minimal), so d = 0 exactly when    *)
(* the value is a whole number.  The binary rounding of IEEE doubles is    *)
(* not modelled: a product the model has whole can carry a fraction in     *)
(* the browser (4.1 * 1000000), never the other way round for the inputs   *)
(* of the model.                                                           *)
(***************************************************************************)
RECURSIVE Norm(_)
Norm(x) ==
    IF x.d > 0 /\ x.n % 10 = 0 THEN Norm([n |-> x.n \div 10, d |-> x.d - 1]) ELSE x

Whole(k) == [n |-> k, d |-> 0]
IsInteger(x) == x.d = 0
IsZero(x) == x.n = 0
Max(a, b) == IF a >= b THEN a ELSE b

NumAdd(a, b) ==
    LET d == Max(a.d, b.d) IN
    Norm([n |-> a.n * Pow10(d - a.d) + b.n * Pow10(d - b.d), d |-> d])

\* a * k for a power of ten k: the decimal point moves first.
RECURSIVE NumMul(_, _)
NumMul(a, k) ==
    IF a.d > 0 /\ k % 10 = 0
    THEN NumMul([n |-> a.n, d |-> a.d - 1], k \div 10)
    ELSE Norm([n |-> a.n * k, d |-> a.d])

\* int(x): truncation of a non-negative value.
Trunc(x) == x.n \div Pow10(x.d)

(***************************************************************************)
(* parse_count, lines 927-953                                              *)
(***************************************************************************)
NoMatch == [found |-> FALSE, g0 |-> <<>>, g1 |-> <<>>]

\* re.search(r'(\d+,?\d*)|(\d*\.?\d+[KkMm])', text): the leftmost match, the
\* first alternative tried first at each position.  At a digit the first
\* alternative always matches; elsewhere only the second can, as
\* '.' digits+ suffix.
RECURSIVE NumberSearch(_, _)
NumberSearch(t, i) ==
    IF i > Len(t) THEN NoMatch
    ELSE IF IsDigit(t[i]) THEN
        LET e == RunEnd(t, i, DigitSet)
            f == IF e <= Len(t) /\ t[e] = "," THEN RunEnd(t, e + 1, DigitSet) ELSE e
        IN [found |-> TRUE, g0 |-> SubSeq(t, i, f - 1), g1 |-> SubSeq(t, i, f - 1)]
    ELSE IF t[i] = "." THEN
        LET e == RunEnd(t, i + 1, DigitSet) IN
        IF e > i + 1 /\ e <= Len(t) /\ t[e] \in {"K", "k", "M", "m"}
        THEN [found |-> TRUE, g0 |-> SubSeq(t, i, e), g1 |-> <<>>]
        ELSE NumberSearch(t, i + 1)
    ELSE NumberSearch(t, i + 1)

\* A float() that gives 0.0 for every text.
FloatOf_zero(s) == Whole(0)

\* float(s) of a text  digits* [ '.' digits* ]  that holds a digit.
FloatOf(s) ==
    LET e == RunEnd(s, 1, DigitSet)
        frac == IF e <= Len(s) /\ s[e] = "."
                THEN SubSeq(s, e + 1, RunEnd(s, e + 1, DigitSet) - 1) ELSE <<>>
    IN Norm([n |-> DigitsVal(SubSeq(s, 1, e - 1)) * Pow10(Len(frac)) + DigitsVal(frac),
             d |-> Len(frac)])

\* The digits of a numeral without its leading zeros.
Significant(digits) == SubSeq(digits, RunEnd(digits, 1, {"0"}), Len(digits))

\* The number of digits of the largest finite float (1.797...e308).  float()
\* of a longer integer numeral is inf, and int(inf) raises OverflowError,
\* which the inner except of lines 946-949 turns into 0.  (Integers between
\* 2^53 and that limit are rounded by float(); they lie outside the
\* integers this model computes with.)
FloatMaxDigits == 309

parse_count(text) ==
    IF text = <<>> THEN 0
    ELSE LET number_match == NumberSearch(text, 1) IN
         IF ~number_match.found THEN 0
         ELSE LET count_str == Lower(Keep(number_match.g0,
                                          {c \in Range(number_match.g0) : c # ","}))
              IN IF "k" \in Range(count_str)
                 THEN Trunc(NumMul(FloatOf(Keep(count_str, Range(count_str) \ {"k"})), 1000))
                 ELSE IF "m" \in Range(count_str)
                 THEN Trunc(NumMul(FloatOf(Keep(count_str, Range(count_str) \ {"m"})), 1000000))
                 ELSE IF Len(Significant(count_str)) > FloatMaxDigits THEN 0
                 ELSE Trunc(FloatOf(count_str))

(***************************************************************************)
(* extract_engagement, lines 752-925                                       *)
(***************************************************************************)
\* [\d,.km] of the scripts' patterns (their texts are lower-cased first).
CountClass == DigitSet \cup {",", ".", "k", "m"}
\* what .replace(/[^\d.km]/gi, '') keeps
NumChars == DigitSet \cup {".", "k", "m"}

\* text.match(/(\d+[\d,.km]*)\s*(?:w1|w2|..)/): leftmost match from index i.
\* No keyword starts with a character of the class or with white space, so
\* only the longest run of each can be followed by the keyword.
RECURSIVE CountSearch(_, _, _)
CountSearch(t, i, kws) ==
    IF i > Len(t) THEN NoMatch
    ELSE IF IsDigit(t[i]) THEN
        LET e == RunEnd(t, i, CountClass)
            f == RunEnd(t, e, SpaceSet)
        IN IF \E w \in kws : StartsAt(t, f, w)
           THEN LET kw == CHOOSE x \in kws : StartsAt(t, f, x) IN
                [found |-> TRUE, g0 |-> SubSeq(t, i, f + Len(kw) - 1),
                 g1 |-> SubSeq(t, i, e - 1)]
           ELSE CountSearch(t, i + 1, kws)
    ELSE CountSearch(t, i + 1, kws)

\* if (num.includes('k')) parseFloat(num) * 1000;
\* else if (num.includes('m')) parseFloat(num) * 1000000; else parseInt(num)
\* for num that starts with a digit.
JsCount(num) ==
    IF "k" \in Range(num) THEN NumMul(FloatOf(num), 1000)
    ELSE IF "m" \in Range(num) THEN NumMul(FloatOf(num), 1000000)
    ELSE Whole(DigitsVal(SubSeq(num, 1, RunEnd(num, 1, DigitSet) - 1)))

ReactionWords == {W_like, W_reaction}
CommentWords == {W_comment}
RepostWords == {W_repost, W_share}

Zeros == [reactions |-> Whole(0), comments |-> Whole(0), reposts |-> Whole(0)]
AllZero(e) == IsZero(e.reactions) /\ IsZero(e.comments) /\ IsZero(e.reposts)

\* Strategy 1 (lines 776-812): the three counts of the aggregate container's
\* lower-cased textContent; the number is taken from capture group 1.
CountOfGroup1(m) == IF m.found THEN JsCount(Keep(m.g1, NumChars)) ELSE Whole(0)
AggregateCount(t, kws) == CountOfGroup1(CountSearch(t, 1, kws))

SocialContainerCounts(textContent) ==
    LET text == Lower(textContent) IN
    [reactions |-> AggregateCount(text, ReactionWords),
     comments |-> AggregateCount(text, CommentWords),
     reposts |-> AggregateCount(text, RepostWords)]

\* Strategy 2 (lines 821-865): the maximum parse_count over the texts of a
\* category's elements that look like a count.
IsDigitStr(t) == t # <<>> /\ \A i \in 1..Len(t) : IsDigit(t[i])

\* parse_count(text) of a text the condition of lines 832-835 lets through,
\* else 0 (the counts start at 0 and only grow).
CountIfLikely(text, kws) ==
    IF /\ text # <<>>
       /\ \/ \E w \in kws : Contains(Lower(text), w)
          \/ IsDigitStr(text)
          \/ Contains(Lower(text), <<"k">>)
    THEN parse_count(text) ELSE 0

RECURSIVE MaxCount(_, _, _, _)
MaxCount(texts, i, kws, best) ==
    IF i > Len(texts) THEN best
    ELSE MaxCount(texts, i + 1, kws, Max(best, CountIfLikely(Strip(texts[i]), kws)))

\* The texts of the elements of a post that carry the given role.
RECURSIVE TextsOf(_, _)
TextsOf(els, role) ==
    IF els = <<>> THEN <<>>
    ELSE (IF els[1].role = role THEN <<els[1].text>> ELSE <<>>) \o TextsOf(Tail(els), role)

SelectorCounts(els) ==
    [reactions |-> Whole(MaxCount(TextsOf(els, "reactions"), 1, ReactionWords, 0)),
     comments |-> Whole(MaxCount(TextsOf(els, "comments"), 1, CommentWords, 0)),
     reposts |-> Whole(MaxCount(TextsOf(els, "reposts"), 1, RepostWords, 0))]

\* Strategy 3 (lines 869-915): every element of the post in document order;
\* a later element's match overwrites an earlier one.  The number is taken
\* from the whole match, keyword included.
CountOfMatch(m, old) == IF m.found THEN JsCount(Keep(m.g0, NumChars)) ELSE old
ScanCount(t, kws, old) ==
    IF \E w \in kws : Contains(t, w) THEN CountOfMatch(CountSearch(t, 1, kws), old) ELSE old

RECURSIVE ScanElements(_, _, _)
ScanElements(els, i, acc) ==
    IF i > Len(els) THEN acc
    ELSE LET text == Lower(Strip(els[i].text)) IN
         ScanElements(els, i + 1,
             [reactions |-> ScanCount(text, ReactionWords, acc.reactions),
              comments |-> ScanCount(text, CommentWords, acc.comments),
              reposts |-> ScanCount(text, RepostWords, acc.reposts)])

\* extract_engagement(post).  post.els are the elements of the container in
\* document order, each [role, text]; role "social" marks an element one of
\* social_counts_selectors finds.  raises: a driver call inside fails.
Strategy1(social) ==
    IF social # <<>> THEN SocialContainerCounts(social[1]) ELSE Zeros
\* Strategy 2 run whatever strategy 1 found.
Strategy2_always(els, counts) == SelectorCounts(els)

Strategy2(els, counts) ==
    IF AllZero(counts) THEN SelectorCounts(els) ELSE counts
Strategy3(els, counts) ==
    IF AllZero(counts) THEN ScanElements(els, 1, Zeros) ELSE counts

extract_engagement(post) ==
    IF post.engagement_raises THEN Zeros
    ELSE Strategy3(post.els, Strategy2(post.els, Strategy1(TextsOf(post.els, "social"))))


(***************************************************************************)
(* parse_date, lines 682-750                                               *)
(* An instant is [day, sec]: the day counted from Monday 2024-01-01 and    *)
(* the second of that day.  None is the Python value.                      *)
(***************************************************************************)
None == [none |-> TRUE]
SecondsPerDay == 86400
\* date(1, 1, 1) counted from 2024-01-01: below it datetime arithmetic
\* raises OverflowError.
MinDay == -738885

\* now - timedelta(days=days, seconds=secs); None when it overflows (the
\* exception is caught at line 748).
Before(now, delta) ==
    IF now.day - delta.days + ((now.sec - delta.secs) \div SecondsPerDay) < MinDay THEN None
    ELSE [day |-> now.day - delta.days + ((now.sec - delta.secs) \div SecondsPerDay),
          sec |-> (now.sec - delta.secs) % SecondsPerDay]

AgoUnits == <<W_minute, W_hour, W_day, W_week, W_month, W_year>>

\* re.search(r'(\d+)\s*(minute|hour|day|week|month|year)s?\s*ago', t) from
\* index i: the leftmost match; [found, value, unit].
RECURSIVE AgoSearch(_, _)
AgoSearch(t, i) ==
    IF i > Len(t) THEN [found |-> FALSE]
    ELSE IF IsDigit(t[i]) THEN
        LET e == RunEnd(t, i, DigitSet)
            f == RunEnd(t, e, SpaceSet)
            us == {u \in 1..Len(AgoUnits) : StartsAt(t, f, AgoUnits[u])}
        IN IF us = {} THEN AgoSearch(t, i + 1)
           ELSE LET u == CHOOSE x \in us : \A y \in us : x <= y
                    g == f + Len(AgoUnits[u])
                    h == IF g <= Len(t) /\ t[g] = "s" THEN g + 1 ELSE g
                    k == RunEnd(t, h, SpaceSet)
                IN IF StartsAt(t, k, W_ago)
                   THEN [found |-> TRUE, value |-> DigitsVal(SubSeq(t, i, e - 1)),
                         unit |-> AgoUnits[u]]
                   ELSE AgoSearch(t, i + 1)
    ELSE AgoSearch(t, i + 1)

\* The alternatives of (s|m|h|d|w|mo|yr) in the order the pattern lists them.
ShortUnits == <<(<<"s">>), (<<"m">>), (<<"h">>), (<<"d">>), (<<"w">>), W_mo, W_yr>>

\* re.search(r'(\d+)\s*(s|m|h|d|w|mo|yr)', t) from index i: the first
\* alternative that matches is taken, nothing follows it in the pattern.
RECURSIVE ShortSearch(_, _)
ShortSearch(t, i) ==
    IF i > Len(t) THEN [found |-> FALSE]
    ELSE IF IsDigit(t[i]) THEN
        LET e == RunEnd(t, i, DigitSet)
            f == RunEnd(t, e, SpaceSet)
            us == {u \in 1..Len(ShortUnits) : StartsAt(t, f, ShortUnits[u])}
        IN IF us = {} THEN ShortSearch(t, i + 1)
           ELSE [found |-> TRUE, value |-> DigitsVal(SubSeq(t, i, e - 1)),
                 unit |-> ShortUnits[CHOOSE x \in us : \A y \in us : x <= y]]
    ELSE ShortSearch(t, i + 1)

MonthNames ==
    <<<<"j", "a", "n", "u", "a", "r", "y">>,
      <<"f", "e", "b", "r", "u", "a", "r", "y">>,
      <<"m", "a", "r", "c", "h">>,
      <<"a", "p", "r", "i", "l">>,
      <<"m", "a", "y">>,
      <<"j", "u", "n", "e">>,
      <<"j", "u", "l", "y">>,
      <<"a", "u", "g", "u", "s", "t">>,
      <<"s", "e", "p", "t", "e", "m", "b", "e", "r">>,
      <<"o", "c", "t", "o", "b", "e", "r">>,
      <<"n", "o", "v", "e", "m", "b", "e", "r">>,
      <<"d", "e", "c", "e", "m", "b", "e", "r">>>>

\* %b: the first three letters of the month's name.
MonthAbbr(m) == SubSeq(MonthNames[m], 1, 3)

IsLeap(y) == (y % 4 = 0 /\ y % 100 # 0) \/ y % 400 = 0
DaysInMonth(y, m) ==
    IF m = 2 THEN (IF IsLeap(y) THEN 29 ELSE 28)
    ELSE IF m \in {4, 6, 9, 11} THEN 30 ELSE 31

\* Days from 1970-01-01 to y-m-d in the proleptic Gregorian calendar.
DaysFromCivil(y, m, d) ==
    LET yy == IF m <= 2 THEN y - 1 ELSE y
        era == yy \div 400
        yoe == yy - era * 400
        mp == (m + 9) % 12
        doy == (153 * mp + 2) \div 5 + d - 1
        doe == yoe * 365 + yoe \div 4 - yoe \div 100 + doy
    IN era * 146097 + doe - 719468

\* 2024-01-01 counted from 1970-01-01
EpochDay == 19723

\* datetime.strptime(text, "<month> %d, %Y") with the month names given:
\* the whole text must match  name \s+ day , \s+ \d\d\d\d  (letters in any
\* case) and name a date that exists; None stands for ValueError.
StrpTime(text, names) ==
    LET t == Lower(text)
        ms == {m \in 1..12 : StartsAt(t, 1, names[m])}
    IN IF ms = {} THEN None
       ELSE LET m == CHOOSE x \in ms : \A y \in ms : Len(names[x]) >= Len(names[y])
                a == Len(names[m]) + 1
                b == RunEnd(t, a, SpaceSet)
                \* %d: 3[0-1] | [1-2]\d | 0[1-9] | [1-9] | ' '[1-9]
                two == /\ b + 1 <= Len(t) /\ IsDigit(t[b]) /\ IsDigit(t[b + 1])
                       /\ DigitsVal(SubSeq(t, b, b + 1)) \in 1..31
                one == b <= Len(t) /\ IsDigit(t[b]) /\ t[b] # "0"
                c == IF two THEN b + 2 ELSE b + 1
                e == RunEnd(t, c + 1, SpaceSet)
            IN IF /\ b > a
                  /\ two \/ one
                  /\ c <= Len(t) /\ t[c] = ","
                  /\ e > c + 1
                  /\ e + 3 = Len(t)
                  /\ \A j \in e..(e + 3) : IsDigit(t[j])
               THEN LET day == DigitsVal(SubSeq(t, b, c - 1))
                        year == DigitsVal(SubSeq(t, e, e + 3))
                    IN IF year >= 1 /\ day <= DaysInMonth(year, m)
                       THEN [day |-> DaysFromCivil(year, m, day) - EpochDay, sec |-> 0]
                       ELSE None
               ELSE None

\* Durations with a month of 31 days.
AgoDelta_long_month(unit, value) ==
    IF unit = W_minute THEN [days |-> 0, secs |-> 60 * value]
    ELSE IF unit = W_hour THEN [days |-> 0, secs |-> 3600 * value]
    ELSE IF unit = W_day THEN [days |-> value, secs |-> 0]
    ELSE IF unit = W_week THEN [days |-> 7 * value, secs |-> 0]
    ELSE IF unit = W_month THEN [days |-> 31 * value, secs |-> 0]
    ELSE [days |-> 365 * value, secs |-> 0]

\* The duration a unit of the '... ago' form stands for: [days, secs] per unit.
AgoDelta(unit, value) ==
    IF unit = W_minute THEN [days |-> 0, secs |-> 60 * value]
    ELSE IF unit = W_hour THEN [days |-> 0, secs |-> 3600 * value]
    ELSE IF unit = W_day THEN [days |-> value, secs |-> 0]
    ELSE IF unit = W_week THEN [days |-> 7 * value, secs |-> 0]
    ELSE IF unit = W_month THEN [days |-> 30 * value, secs |-> 0]
    ELSE [days |-> 365 * value, secs |-> 0]

\* The duration a unit of the compact form stands for.
ShortDelta(unit, value) ==
    IF unit = <<"s">> THEN [days |-> 0, secs |-> value]
    ELSE IF unit = <<"m">> THEN [days |-> 0, secs |-> 60 * value]
    ELSE IF unit = <<"h">> THEN [days |-> 0, secs |-> 3600 * value]
    ELSE IF unit = <<"d">> THEN [days |-> value, secs |-> 0]
    ELSE IF unit = <<"w">> THEN [days |-> 7 * value, secs |-> 0]
    ELSE IF unit = W_mo THEN [days |-> 30 * value, secs |-> 0]
    ELSE [days |-> 365 * value, secs |-> 0]

MonthAbbrs == [m \in 1..12 |-> MonthAbbr(m)]

\* Lines 741-746: the formats are tried in order, the first that parses wins.
FirstParsed(abbreviated, full) == IF abbreviated # None THEN abbreviated ELSE full

\* Lines 703-746 on the two regular-expression matches.
RelativeOrAbsolute(date_text, now, ago_match, short_match) ==
    IF ago_match.found
    THEN Before(now, AgoDelta(ago_match.unit, ago_match.value))
    ELSE IF short_match.found
    THEN Before(now, ShortDelta(short_match.unit, short_match.value))
    ELSE FirstParsed(StrpTime(date_text, MonthAbbrs), StrpTime(date_text, MonthNames))

parse_date(date_text, now) ==
    IF date_text = <<>> \/ date_text = W_Unknown_date THEN None
    ELSE IF Contains(Lower(date_text), W_just_now) \/ Lower(date_text) = W_now THEN now
    ELSE RelativeOrAbsolute(date_text, now,
                            AgoSearch(Lower(date_text), 1), ShortSearch(Lower(date_text), 1))


(***************************************************************************)
(* One post container.  A container (a WebElement of the rendered page) is *)
(*   text      its visible text (post.text)                                *)
(*   content   the elements the content selectors find, in document order, *)
(*             each [sel, text]: sel is the index of the selector in       *)
(*             is_original_post's list (1..5; extract_post_text has 1..4)  *)
(*   js_text   what the fallback script of extract_post_text returns       *)
(*   dates     the elements date extraction can see, each [sel, tag, text]:*)
(*             sel the index of the date selector that finds it (0: none), *)
(*             tag its element name                                        *)
(*   els       the elements engagement extraction can see, [role, text]    *)
(*   *_raises  whether a driver call inside that step raises               *)
(***************************************************************************)
ActivityTexts ==
    <<<<"l", "i", "k", "e", "d">>,
      <<"c", "o", "m", "m", "e", "n", "t", "e", "d", " ", "o", "n">>,
      <<"r", "e", "p", "l", "i", "e", "d">>,
      <<"r", "e", "p", "o", "s", "t", "e", "d">>,
      <<"s", "h", "a", "r", "e", "d">>,
      <<"c", "e", "l", "e", "b", "r", "a", "t", "e", "s">>,
      <<"m", "e", "n", "t", "i", "o", "n", "e", "d", " ", "i", "n">>,
      <<"f", "o", "l", "l", "o", "w", "s">>>>

\* A classifier that looks at the content elements only.
is_original_post_content_only(post) ==
    \E i \in 1..Len(post.content) :
        post.content[i].sel \in 1..5 /\ Strip(post.content[i].text) # <<>>

\* is_original_post, lines 482-517
is_original_post(post) ==
    IF post.classify_raises THEN FALSE
    ELSE LET post_text == Lower(post.text)
             head == SubSeq(post_text, 1, IF Len(post_text) < 50 THEN Len(post_text) ELSE 50)
         IN IF \E a \in 1..Len(ActivityTexts) :
                  \/ StartsAt(post_text, 1, ActivityTexts[a])
                  \/ Contains(head, <<"\n">> \o ActivityTexts[a])
            THEN FALSE
            ELSE \E i \in 1..Len(post.content) :
                    post.content[i].sel \in 1..5 /\ Strip(post.content[i].text) # <<>>

\* The texts of the elements selector sel finds, in document order.
RECURSIVE BySelector(_, _)
BySelector(elements, sel) ==
    IF elements = <<>> THEN <<>>
    ELSE (IF elements[1].sel = sel THEN <<elements[1].text>> ELSE <<>>)
         \o BySelector(Tail(elements), sel)

\* lines 533-539: the longest stripped text over the selectors in order; a
\* later text replaces the kept one only when it is strictly longer.
RECURSIVE Longest(_, _, _)
Longest(texts, i, best) ==
    IF i > Len(texts) THEN best
    ELSE LET text == Strip(texts[i]) IN
         Longest(texts, i + 1, IF text # <<>> /\ Len(text) > Len(best) THEN text ELSE best)

\* re.sub(r'\n\s*\n', '\n\n', t)
RECURSIVE CollapseBlankLines(_, _)
CollapseBlankLines(t, i) ==
    IF i > Len(t) THEN <<>>
    ELSE LET e == RunEnd(t, i + 1, SpaceSet)
             nl == {j \in (i + 1)..(e - 1) : t[j] = "\n"}
         IN IF t[i] = "\n" /\ nl # {}
            THEN <<"\n", "\n">>
                 \o CollapseBlankLines(t, (CHOOSE j \in nl : \A k \in nl : k <= j) + 1)
            ELSE <<t[i]>> \o CollapseBlankLines(t, i + 1)

\* re.sub(r' +', ' ', t)
RECURSIVE CollapseSpaces(_, _)
CollapseSpaces(t, i) ==
    IF i > Len(t) THEN <<>>
    ELSE IF t[i] = " " /\ i > 1 /\ t[i - 1] = " " THEN CollapseSpaces(t, i + 1)
    ELSE <<t[i]>> \o CollapseSpaces(t, i + 1)

\* No text: the Python None where a str is expected.  No str equals it, since
\* every element of a str is a single character.
NoText == <<"None">>

W_Error_extracting_text == <<"E", "r", "r", "o", "r", " ", "e", "x", "t", "r", "a", "c", "t", "i", "n", "g", " ", "t", "e", "x", "t">>

\* extract_post_text, lines 519-567
extract_post_text(post) ==
    IF post.text_raises THEN W_Error_extracting_text
    ELSE LET found == Longest(BySelector(post.content, 1) \o BySelector(post.content, 2)
                              \o BySelector(post.content, 3) \o BySelector(post.content, 4),
                              1, <<>>)
             post_text == IF found = <<>> THEN post.js_text ELSE found
         IN Strip(CollapseSpaces(CollapseBlankLines(post_text, 1), 1))

DateIndicators ==
    {<<"a", "g", "o">>,
     <<"h", "o", "u", "r">>,
     <<"d", "a", "y">>,
     <<"m", "i", "n">>,
     <<"s", "e", "c">>,
     <<"j", "u", "s", "t", " ", "n", "o", "w">>,
     <<"w", "e", "e", "k">>,
     <<"m", "o", "n", "t", "h">>,
     <<"y", "r">>}

HasIndicator(text) == \E w \in DateIndicators : Contains(Lower(text), w)

\* Date selectors in list order; "time" is the third, and the sixth finds
\* only elements the third has already found.
DateSelectors == <<1, 2, 3, 4, 5, 7>>

\* The elements selector sel finds: those marked with it, and for the
\* "time" selector every time element.
RECURSIVE DateBySelector(_, _)
DateBySelector(dates, sel) ==
    IF dates = <<>> THEN <<>>
    ELSE (IF dates[1].sel = sel \/ (sel = 3 /\ dates[1].tag = "time")
          THEN <<dates[1].text>> ELSE <<>>)
         \o DateBySelector(Tail(dates), sel)

RECURSIVE AllDateTexts(_, _)
AllDateTexts(dates, k) ==
    IF k > Len(DateSelectors) THEN <<>>
    ELSE DateBySelector(dates, DateSelectors[k]) \o AllDateTexts(dates, k + 1)

\* The first text of a sequence that satisfies the test of the step, or none.
RECURSIVE FirstDated(_, _)
FirstDated(texts, i) ==
    IF i > Len(texts) THEN NoText
    ELSE IF Strip(texts[i]) # <<>> /\ HasIndicator(Strip(texts[i])) THEN Strip(texts[i])
    ELSE FirstDated(texts, i + 1)

\* The fallback script, lines 651-674: the first time element with text,
\* whatever it says; then the first span or div whose text has an indicator.
RECURSIVE FirstTime(_, _)
FirstTime(dates, i) ==
    IF i > Len(dates) THEN NoText
    ELSE IF dates[i].tag = "time" /\ Strip(dates[i].text) # <<>> THEN Strip(dates[i].text)
    ELSE FirstTime(dates, i + 1)

RECURSIVE SpanDivTexts(_)
SpanDivTexts(dates) ==
    IF dates = <<>> THEN <<>>
    ELSE (IF dates[1].tag \in {"span", "div"} THEN <<dates[1].text>> ELSE <<>>)
         \o SpanDivTexts(Tail(dates))

\* extract_post_date, lines 629-680
extract_post_date(post) ==
    IF post.date_raises THEN W_Unknown_date
    ELSE LET by_selector == FirstDated(AllDateTexts(post.dates, 1), 1)
             by_time == FirstTime(post.dates, 1)
             by_scan == FirstDated(SpanDivTexts(post.dates), 1)
         IN IF by_selector # NoText THEN by_selector
            ELSE IF by_time # NoText THEN by_time
            ELSE IF by_scan # NoText THEN by_scan
            ELSE W_Unknown_date


(***************************************************************************)
(* Assembly of a PostRecord, extract_posts lines 418-458                   *)
(***************************************************************************)
W_Unknown == <<"U", "n", "k", "n", "o", "w", "n">>

DayNames ==
    <<<<"M", "o", "n", "d", "a", "y">>,
      <<"T", "u", "e", "s", "d", "a", "y">>,
      <<"W", "e", "d", "n", "e", "s", "d", "a", "y">>,
      <<"T", "h", "u", "r", "s", "d", "a", "y">>,
      <<"F", "r", "i", "d", "a", "y">>,
      <<"S", "a", "t", "u", "r", "d", "a", "y">>,
      <<"S", "u", "n", "d", "a", "y">>>>

\* strftime('%A'): day 0 of the model's calendar is a Monday.
DayOfWeek(ts) == DayNames[(ts.day % 7) + 1]

\* A number below 100 in two digits.
TwoDigits(n) == <<Digits[(n \div 10) + 1], Digits[(n % 10) + 1]>>

\* The decimal numeral of n.
RECURSIVE Numeral(_)
Numeral(n) == IF n < 10 THEN <<Digits[n + 1]>> ELSE Numeral(n \div 10) \o <<Digits[(n % 10) + 1]>>

\* strftime('%H'): two digits.
HourOfDay(ts) == TwoDigits(ts.sec \div 3600)

\* The year, month and day of the day z counted from 1970-01-01, from the
\* day doe of its 400-year era and the year yoe of the era.
CivilOfMarch(y, doy, mp) ==
    [year |-> IF mp < 10 THEN y ELSE y + 1,
     month |-> IF mp < 10 THEN mp + 3 ELSE mp - 9,
     day |-> doy - (153 * mp + 2) \div 5 + 1]
CivilOfYear(era, doe, yoe) ==
    CivilOfMarch(yoe + era * 400,
                 doe - (365 * yoe + yoe \div 4 - yoe \div 100),
                 (5 * (doe - (365 * yoe + yoe \div 4 - yoe \div 100)) + 2) \div 153)
CivilOfEra(era, doe) ==
    CivilOfYear(era, doe,
                (doe - doe \div 1460 + doe \div 36524 - doe \div 146096) \div 365)
CivilFromDays(z) ==
    CivilOfEra((z + 719468) \div 146097, (z + 719468) % 146097)

\* '%Y-%m-%d %H:%M:%S' of a calendar date and a second of the day.
FormatCivil(c, sec) ==
    Numeral(c.year) \o <<"-">> \o TwoDigits(c.month) \o <<"-">> \o TwoDigits(c.day)
    \o <<" ">> \o TwoDigits(sec \div 3600) \o <<":">> \o TwoDigits((sec % 3600) \div 60)
    \o <<":">> \o TwoDigits(sec % 60)

\* strftime('%Y-%m-%d %H:%M:%S')
FormatDate(ts) == FormatCivil(CivilFromDays(ts.day + EpochDay), ts.sec)

WordSet == DigitSet \cup Range(LowerCase) \cup Range(UpperCase) \cup {"_"}

\* re.findall(r'#\w+', text) from index i
RECURSIVE FindHashtags(_, _)
FindHashtags(t, i) ==
    IF i > Len(t) THEN <<>>
    ELSE IF t[i] = "#" /\ RunEnd(t, i + 1, WordSet) > i + 1
         THEN <<SubSeq(t, i, RunEnd(t, i + 1, WordSet) - 1)>>
              \o FindHashtags(t, RunEnd(t, i + 1, WordSet))
         ELSE FindHashtags(t, i + 1)

\* ', '.join(tags)
RECURSIVE Join(_)
Join(tags) ==
    IF tags = <<>> THEN <<>>
    ELSE IF Len(tags) = 1 THEN tags[1]
    ELSE tags[1] \o <<",", " ">> \o Join(Tail(tags))

\* The day-of-week field taken from the current time, not the parsed date.
DayOfWeekField_now(parsed_date, now) == DayOfWeek(now)

\* lines 430-432: each field tests parsed_date on its own.
FormattedDateField(parsed_date, now) ==
    IF parsed_date # None THEN FormatDate(parsed_date) ELSE W_Unknown
DayOfWeekField(parsed_date, now) ==
    IF parsed_date # None THEN DayOfWeek(parsed_date) ELSE W_Unknown
HourOfDayField(parsed_date, now) ==
    IF parsed_date # None THEN HourOfDay(parsed_date) ELSE W_Unknown

\* line 452
TotalEngagement(e) == NumAdd(NumAdd(e.reactions, e.comments), e.reposts)

\* The dict appended at lines 441-458 for a container classified original,
\* from the values computed before it.  page is the profile page in the
\* browser, now the clock, session_id the scraper's.
PostData(page, now, session_id, post_text, post_date, engagement, parsed_date, hashtags) ==
    [profile_name |-> page.profile_name,
     profile_url |-> page.profile_url,
     post_text |-> post_text,
     post_date_text |-> post_date,
     post_date |-> FormattedDateField(parsed_date, now),
     day_of_week |-> DayOfWeekField(parsed_date, now),
     hour_of_day |-> HourOfDayField(parsed_date, now),
     reactions |-> engagement.reactions,
     comments |-> engagement.comments,
     reposts |-> engagement.reposts,
     total_engagement |-> TotalEngagement(engagement),
     hashtags |-> Join(hashtags),
     hashtag_count |-> Len(hashtags),
     post_length |-> Len(post_text),
     scraped_at |-> FormatDate(now),
     session_id |-> session_id]

\* Lines 436-439: parse_date and the hashtags of the extracted values.
PostFields(page, now, session_id, post_text, post_date, engagement) ==
    PostData(page, now, session_id, post_text, post_date, engagement,
             parse_date(post_date, now), FindHashtags(post_text, 1))

\* Lines 430-458: the record of one original post.
PostRecord(post, page, now, session_id) ==
    PostFields(page, now, session_id,
               extract_post_text(post), extract_post_date(post), extract_engagement(post))


(***************************************************************************)
(* extract_posts, lines 363-479                                            *)
(* A page is the profile's activity page as rendered in the browser:       *)
(*   profile_name, profile_url   what extract_profile_name and current_url *)
(*                               give on it                                *)
(*   matches      for each of the three post selectors, in list order, the *)
(*                containers it finds                                      *)
(*   extract_raises  a driver call of extract_posts outside the per-post   *)
(*                handler raises                                           *)
(***************************************************************************)
\* posts[:15], line 385
ContainerCap == 15

\* max_posts=5, line 51
DefaultMaxPosts == 5

\* A locator that merges the matches of all selectors from k on.
RECURSIVE FirstMatches_merged(_, _)
FirstMatches_merged(matches, k) ==
    IF k > Len(matches) THEN <<>>
    ELSE matches[k] \o FirstMatches_merged(matches, k + 1)

\* lines 381-386: the matches of the first selector that finds any.
RECURSIVE FirstMatches(_, _)
FirstMatches(matches, k) ==
    IF k > Len(matches) THEN <<>>
    ELSE IF matches[k] # <<>>
         THEN SubSeq(matches[k], 1,
                     IF Len(matches[k]) < ContainerCap THEN Len(matches[k]) ELSE ContainerCap)
         ELSE FirstMatches(matches, k + 1)

\* The loop of lines 398-470 from container i on.  A container whose
\* handling raises outside the field extractors (loop_raises), or that is
\* not classified original, adds nothing; the loop ends after the record
\* that brings post_count to max_posts.  The result is the records
\* appended to post_data from container i on.
RECURSIVE PostLoop(_, _, _, _, _, _, _)
PostLoop(all_posts, i, post_count, page, max_posts, now, session_id) ==
    IF i > Len(all_posts) THEN <<>>
    ELSE IF all_posts[i].loop_raises \/ ~is_original_post(all_posts[i])
    THEN PostLoop(all_posts, i + 1, post_count, page, max_posts, now, session_id)
    ELSE <<PostRecord(all_posts[i], page, now, session_id)>>
         \o (IF post_count + 1 >= max_posts THEN <<>>
             ELSE PostLoop(all_posts, i + 1, post_count + 1, page, max_posts, now, session_id))

extract_posts(page, max_posts, now, session_id) ==
    IF page.extract_raises THEN <<>>
    ELSE PostLoop(FirstMatches(page.matches, 1), 1, 0, page, max_posts, now, session_id)

\* Lines 409-411: with self.debug the loop takes a screenshot of each
\* container before it classifies it.  shot_raises says that this
\* screenshot raises when it is attempted; the exception is one raised in
\* the loop outside the field extractors (handler of lines 468-470).
WithCaptures(page, debug) ==
    [page EXCEPT !.matches =
        [k \in 1..Len(page.matches) |->
            [i \in 1..Len(page.matches[k]) |->
                [page.matches[k][i] EXCEPT
                    !.loop_raises = @ \/ (debug /\ page.matches[k][i].shot_raises)]]]]

\* The number of containers the loop of lines 398-470 enters from
\* container i on.
RECURSIVE Visited(_, _, _, _)
Visited(all_posts, i, post_count, max_posts) ==
    IF i > Len(all_posts) THEN 0
    ELSE IF all_posts[i].loop_raises \/ ~is_original_post(all_posts[i])
    THEN 1 + Visited(all_posts, i + 1, post_count, max_posts)
    ELSE 1 + (IF post_count + 1 >= max_posts THEN 0
              ELSE Visited(all_posts, i + 1, post_count + 1, max_posts))

\* The screenshots one call of extract_posts writes (lines 366-367, 392-393,
\* 410-411, 477-478), by the source line of the save_screenshot call and,
\* for line 411, the number i+1 of the container; all_posts are the
\* containers of WithCaptures(page, debug).
Captures(page, all_posts, max_posts, debug) ==
    IF ~debug THEN <<>>
    ELSE <<[line |-> 367, post |-> 0]>>
         \o (IF page.extract_raises THEN <<[line |-> 478, post |-> 0]>>
             ELSE IF all_posts = <<>> THEN <<[line |-> 393, post |-> 0]>>
             ELSE SelectSeq([i \in 1..Visited(all_posts, 1, 0, max_posts) |->
                                [line |-> 411, post |-> i]],
                            LAMBDA c : ~all_posts[c.post].shot_raises))


(***************************************************************************)
(* Dataset writer: scrape_multiple_profiles, lines 1024-1049               *)
(***************************************************************************)
\* Bounds of the writer model.
MaxSessionLen == 2
MaxRuns == 2

\* Values of the two key columns a PostRecord can carry.  post_text may be
\* the empty text: extract_post_text returns it when no content selector
\* and no fallback node yields text (lines 533-563); it may be any text a
\* post consists of, "NA" included.
ProfileNames == {<<"A", "n", "n">>, <<"B", "o", "b">>}
PostTexts == {<<>>, <<"h", "i">>, <<"N", "A">>}

\* What pandas holds for a missing cell; distinct from every str value.
NaN == <<"float(nan)">>

\* Strings pd.read_csv turns into NaN with its default na_values
\* (keep_default_na=True); the empty field is the one to_csv itself writes.
NAStrings ==
    {<<>>, <<"N", "A">>,
     <<"N", "/", "A">>,
     <<"N", "U", "L", "L">>,
     <<"N", "a", "N">>,
     <<"n", "a", "n">>,
     <<"n", "u", "l", "l">>,
     <<"n", "/", "a">>,
     <<"#", "N", "/", "A">>,
     <<"<", "N", "A", ">">>,
     <<"N", "o", "n", "e">>}

AbsentFile == [exists |-> FALSE, rows |-> <<>>]

\* One CSV cell read back by pd.read_csv (line 1036).
ReadCell(s) == IF s \in NAStrings THEN NaN ELSE s

\* One cell written by DataFrame.to_csv (na_rep = "").
WriteCell(v) == IF v = NaN THEN <<>> ELSE v

\* pd.read_csv(output_file): the key columns are object columns; the other
\* two columns of the model hold integers, which read back as themselves.
read_csv(rows) ==
    [i \in 1..Len(rows) |->
        [rows[i] EXCEPT !.profile_name = ReadCell(@), !.post_text = ReadCell(@)]]

\* DataFrame.to_csv(file, index=False)
to_csv(df) ==
    [i \in 1..Len(df) |->
        [df[i] EXCEPT !.profile_name = WriteCell(@), !.post_text = WriteCell(@)]]

\* subset=['post_text', 'profile_name']
DedupKey(r) == <<r.post_text, r.profile_name>>

\* The key as the spec states it, on the rows of a file.
Key(r) == <<r.profile_name, r.post_text>>

RECURSIVE DropFrom(_, _, _)
DropFrom(df, i, seen) ==
    IF i > Len(df) THEN <<>>
    ELSE IF DedupKey(df[i]) \in seen THEN DropFrom(df, i + 1, seen)
    ELSE <<df[i]>> \o DropFrom(df, i + 1, seen \cup {DedupKey(df[i])})

\* df.drop_duplicates(subset=[...], keep='first'): NaN equals NaN here.
drop_duplicates(df) == DropFrom(df, 1, {})

\* The cumulative file after the writer ran on all_posts (lines 1025-1049).
\* With no posts nothing is written; with no cumulative file the session
\* frame is written as it is, without drop_duplicates (lines 1043-1046).
WriteCumulative(file, all_posts) ==
    IF all_posts = <<>> THEN file
    ELSE IF file.exists
         THEN [exists |-> TRUE,
               rows |-> to_csv(drop_duplicates(read_csv(file.rows) \o all_posts))]
         ELSE [exists |-> TRUE, rows |-> to_csv(all_posts)]

\* The per-session file (lines 1030-1031): written only when there are posts.
WriteSession(file, all_posts) ==
    IF all_posts = <<>> THEN file
    ELSE [exists |-> TRUE, rows |-> to_csv(all_posts)]

\* The records of one run: the keys are free, session_id is the run's and
\* scraped_at orders the records inside the run.
SessionRecords(keys, sid) ==
    [i \in 1..Len(keys) |->
        [profile_name |-> keys[i][1], post_text |-> keys[i][2],
         session_id |-> sid, scraped_at |-> i]]

EmptyPage ==
    [profile_name |-> <<"A", "n", "n">>, profile_url |-> "linkedin.com/in/ann",
     matches |-> <<(<<>>), (<<>>), (<<>>)>>, extract_raises |-> FALSE]

\* No parser call is in progress.
NoCall == [fn |-> "none"]
Pending == [pending |-> TRUE]
FunIdle ==
    /\ call = NoCall
    /\ result = Pending

PostIdle ==
    /\ browser_page = EmptyPage
    /\ clock = [day |-> 0, sec |-> 0]
    /\ self_max_posts = DefaultMaxPosts
    /\ self_debug = TRUE
    /\ captures = <<>>
    /\ posts = <<>>
    /\ ppc = "idle"

\* No run of main is in progress.
NotSeen == [seen |-> FALSE, landmark |-> FALSE, challenge |-> FALSE]
NoReturn == [kind |-> "none"]
RunIdle ==
    /\ pc = "idle"
    /\ creds = TRUE
    /\ driver = "none"
    /\ logged_in = FALSE
    /\ auth = NotSeen
    /\ acked = FALSE
    /\ profile_urls = <<>>
    /\ idx = 1
    /\ status = <<>>
    /\ contrib = <<>>
    /\ run_posts = <<>>
    /\ ret = NoReturn
    /\ shown = "none"
    /\ events = <<>>

\* The data directory before the first run.
DataInit ==
    /\ output_file = AbsentFile
    /\ session_file = AbsentFile
    /\ runs = 0
    /\ log = <<>>
    /\ last_posts = <<>>
    /\ op = "none"
    /\ cum_before = AbsentFile

WInit ==
    /\ PostIdle
    /\ RunIdle
    /\ FunIdle
    /\ output_file = AbsentFile
    /\ session_file = AbsentFile
    /\ runs = 0
    /\ log = <<>>
    /\ last_posts = <<>>
    /\ op = "none"
    /\ cum_before = AbsentFile

\* One orchestrator run reaches its writer with the records all_posts.
WriterRun ==
    /\ runs < MaxRuns
    /\ \E keys \in SeqsUpTo(ProfileNames \X PostTexts, MaxSessionLen) :
         LET all_posts == SessionRecords(keys, runs + 1) IN
           /\ session_file' = WriteSession(AbsentFile, all_posts)
           /\ output_file' = WriteCumulative(output_file, all_posts)
           /\ log' = log \o all_posts
           /\ last_posts' = all_posts
    /\ runs' = runs + 1
    /\ op' = "write"
    /\ cum_before' = output_file
    /\ UNCHANGED postVars
    /\ UNCHANGED runVars
    /\ UNCHANGED funVars

\* The writer is run once more on the very same records.
WriterRerun ==
    /\ op = "write"
    /\ session_file' = WriteSession(session_file, last_posts)
    /\ output_file' = WriteCumulative(output_file, last_posts)
    /\ op' = "rewrite"
    /\ cum_before' = output_file
    /\ UNCHANGED <<runs, log, last_posts>>
    /\ UNCHANGED postVars
    /\ UNCHANGED runVars
    /\ UNCHANGED funVars

WNext == WriterRun \/ WriterRerun

SpecWriter == WInit /\ [][WNext]_vars

(***************************************************************************)
(* SpecPost: extract_posts applied to one rendered page                    *)
(***************************************************************************)
\* Bounds of the inputs.
MaxDateValue == 3
MaxFracDigits == 4

\* An original post with text, no date element and no engagement element.
PlainPost ==
    [text |-> <<"A", "n", "n", "\n", "H", "e", "l", "l", "o", " ", "#", "A", "I">>,
     content |-> <<[sel |-> 1, text |-> <<"H", "e", "l", "l", "o", " ", "#", "A", "I", " ", "#", "T", "e", "c", "h">>]>>,
     js_text |-> <<>>, dates |-> <<>>, els |-> <<>>,
     classify_raises |-> FALSE, text_raises |-> FALSE, date_raises |-> FALSE,
     engagement_raises |-> FALSE, loop_raises |-> FALSE, shot_raises |-> FALSE]

\* Raw date texts: "<n><sep><unit><tail>" over the units of both forms and
\* two words that are no unit, and texts of the other shapes.
DateUnitWords ==
    Range(AgoUnits) \cup Range(ShortUnits) \cup {<<"x">>, <<"d", "o", "g", "s">>}
DateTexts ==
    {Numeral(n) \o sep \o u \o tail :
        n \in 0..MaxDateValue, sep \in {<<>>, <<" ">>}, u \in DateUnitWords,
        tail \in {<<>>, <<" ">> \o W_ago, <<"s", " ">> \o W_ago}}
    \cup {<<>>, W_Unknown_date, W_just_now, <<"N", "o", "w">>, <<"y", "e", "s", "t", "e", "r", "d", "a", "y">>, <<"g", "a", "r", "b", "a", "g", "e">>,
          <<"D", "e", "c", " ", "2", "5", ",", " ", "2", "0", "2", "3">>, <<"D", "e", "c", "e", "m", "b", "e", "r", " ", "5", ",", " ", "2", "0", "2", "3">>, <<"F", "e", "b", " ", "3", "0", ",", " ", "2", "0", "2", "3">>}

\* The shapes a date element can have: found by the first date selector,
\* a time element (third selector), or a span no date selector finds.
DateElements ==
    {[sel |-> sh[1], tag |-> sh[2], text |-> t] :
        sh \in {<<1, "span">>, <<3, "time">>, <<0, "span">>}, t \in DateTexts}

DatePosts ==
    {[PlainPost EXCEPT !.dates = ds, !.date_raises = f] :
        ds \in {<<>>} \cup {<<e>> : e \in DateElements}, f \in BOOLEAN}

\* Count texts: "<int><frac><suffix> <word>s" and the bare number, the
\* fraction of 0, 1 or MaxFracDigits digits.
FracDigits == <<"2", "3", "4", "5", "6", "7", "8", "9">>
CountNumbers ==
    {ip \o (IF d = 0 THEN <<>> ELSE <<".">> \o SubSeq(FracDigits, 1, d)) \o suf :
        ip \in {<<"0">>, <<"4", "2">>, <<"1", ",", "2", "3", "4">>},
        d \in {0, 1, MaxFracDigits}, suf \in {<<>>, <<"k">>, <<"M">>}}
CountTexts ==
    {num \o <<" ">> \o w \o <<"s">> :
        num \in CountNumbers, w \in {W_reaction, W_like, W_comment, W_repost}}
    \cup CountNumbers

EngagementRoles == {"social", "reactions", "comments", "reposts", "other"}
EngagementElements == {[role |-> r, text |-> t] : r \in EngagementRoles, t \in CountTexts}

\* One varied element, alone, before/after a fixed aggregate container, or
\* after an aggregate container that shows no count.
FixedSocial == [role |-> "social", text |-> <<"3", " ", "r", "e", "p", "o", "s", "t", "s">>]
ZeroSocial == [role |-> "social", text |-> <<"0", " ", "r", "e", "a", "c", "t", "i", "o", "n", "s">>]
EngagementPosts ==
    {[PlainPost EXCEPT !.els = es] :
        es \in UNION {{<<e>>, <<e, FixedSocial>>, <<FixedSocial, e>>, <<ZeroSocial, e>>} :
                         e \in EngagementElements}}
    \cup {[PlainPost EXCEPT !.els = <<FixedSocial>>, !.engagement_raises = TRUE]}

\* Posts whose text extraction fails, that raise in the loop, whose debug
\* screenshot cannot be taken, that are reshares, whose text names a
\* hashtag twice, or whose only content element is one the fifth content
\* selector of the classifier finds (with and without text in the nodes
\* the fallback script reads).
OtherPosts ==
    {[PlainPost EXCEPT !.text_raises = TRUE],
     [PlainPost EXCEPT !.loop_raises = TRUE],
     [PlainPost EXCEPT !.shot_raises = TRUE],
     [PlainPost EXCEPT !.classify_raises = TRUE],
     [PlainPost EXCEPT !.text = <<"A", "n", "n", " ", "l", "i", "k", "e", "d", " ", "t", "h", "i", "s", "\n", "H", "e", "l", "l", "o">>],
     [PlainPost EXCEPT !.content = <<>>],
     [PlainPost EXCEPT !.content = <<[sel |-> 1, text |-> <<"#", "A", "I", " ", "r", "o", "c", "k", "s", " ", "#", "A", "I">>]>>],
     [PlainPost EXCEPT !.content = <<[sel |-> 5, text |-> <<"H", "i">>]>>],
     [PlainPost EXCEPT !.content = <<[sel |-> 5, text |-> <<"H", "i">>]>>,
                       !.js_text = <<"H", "i">>]}

\* The containers of the end-to-end scenario: a reshare, and two original
\* posts whose engagement line is the text of one element, inside an
\* aggregate social-counts container (role "social") or outside any
\* element the engagement selectors find (role "other").  "|" stands for the
\* middle dot of the engagement line.
Reshare ==
    [PlainPost EXCEPT !.text = <<"r", "e", "p", "o", "s", "t", "e", "d", " ", "t", "h", "i", "s", "\n", "B", "o", "b", "\n", "O", "l", "d", " ", "n", "e", "w", "s">>,
                      !.content = <<[sel |-> 1, text |-> <<"O", "l", "d", " ", "n", "e", "w", "s">>]>>]
HelloPost(role) ==
    [PlainPost EXCEPT !.text = <<"A", "n", "n", "\n", "H", "e", "l", "l", "o", " ", "#", "A", "I", " ", "#", "T", "e", "c", "h", "\n", "4", "2", " ", "r", "e", "a", "c", "t", "i", "o", "n", "s", " ", "|", " ", "5", " ", "c", "o", "m", "m", "e", "n", "t", "s">>,
                      !.content = <<[sel |-> 1, text |-> <<"H", "e", "l", "l", "o", " ", "#", "A", "I", " ", "#", "T", "e", "c", "h">>]>>,
                      !.els = <<[role |-> role, text |-> <<"4", "2", " ", "r", "e", "a", "c", "t", "i", "o", "n", "s", " ", "|", " ", "5", " ", "c", "o", "m", "m", "e", "n", "t", "s">>]>>]
WorldPost(role) ==
    [PlainPost EXCEPT !.text = <<"A", "n", "n", "\n", "W", "o", "r", "l", "d", "\n", "0", " ", "r", "e", "a", "c", "t", "i", "o", "n", "s">>,
                      !.content = <<[sel |-> 1, text |-> <<"W", "o", "r", "l", "d">>]>>,
                      !.els = <<[role |-> role, text |-> <<"0", " ", "r", "e", "a", "c", "t", "i", "o", "n", "s">>]>>]
ScenarioPages ==
    {[EmptyPage EXCEPT !.matches = <<cs, (<<>>), (<<>>)>>] :
        cs \in UNION {{<<Reshare, HelloPost(r), WorldPost(r)>>,
                       <<HelloPost(r), Reshare, WorldPost(r)>>,
                       <<HelloPost(r), WorldPost(r), Reshare>>} : r \in {"social", "other"}}}

\* Pages on which more than one post selector finds containers, and a page
\* whose first selector finds sixteen containers, fifteen reshares and then
\* an original post.
LocatorPages ==
    {[EmptyPage EXCEPT !.matches = ms] :
        ms \in {<<(<<>>), <<PlainPost>>, <<WorldPost("social")>>>>,
                <<(<<Reshare>>), <<PlainPost>>, (<<>>)>>,
                <<(<<WorldPost("social")>>), (<<>>), <<PlainPost, Reshare>>>>,
                <<[i \in 1..(ContainerCap + 1) |->
                      IF i <= ContainerCap THEN Reshare ELSE PlainPost],
                  (<<>>), <<PlainPost>>>>}}

\* Pages with three containers, extracted under every limit from 0 to
\* MaxLimit.
MaxLimit == 2
LimitPages ==
    {[EmptyPage EXCEPT !.matches = <<cs, (<<>>), (<<>>)>>] :
        cs \in {<<PlainPost, WorldPost("social"), HelloPost("social")>>,
                <<PlainPost, Reshare, WorldPost("social")>>}}

\* Pages with one container, and pages where a second, plain container
\* follows.
PostPages ==
    {[EmptyPage EXCEPT !.matches = <<(<<c>>), (<<>>), (<<>>)>>] :
        c \in DatePosts \cup EngagementPosts \cup OtherPosts}
    \cup {[EmptyPage EXCEPT !.matches = <<(<<c, PlainPost>>), (<<>>), (<<>>)>>] :
            c \in OtherPosts \cup {PlainPost}}
    \cup ScenarioPages
    \cup LocatorPages
    \cup LimitPages

Clocks == {[day |-> 2, sec |-> 34215], [day |-> 0, sec |-> 30]}

PInit ==
    /\ DataInit
    /\ RunIdle
    /\ FunIdle
    /\ browser_page \in PostPages
    /\ clock \in Clocks
    /\ self_max_posts \in (IF browser_page \in LimitPages THEN 0..MaxLimit
                           ELSE {DefaultMaxPosts})
    /\ self_debug \in BOOLEAN
    /\ captures = <<>>
    /\ posts = <<>>
    /\ ppc = "ready"

\* posts = self.extract_posts() on the page in the browser.
ExtractPosts ==
    /\ ppc = "ready"
    /\ posts' = extract_posts(WithCaptures(browser_page, self_debug),
                              self_max_posts, clock, 1)
    /\ captures' = Captures(browser_page,
                            FirstMatches(WithCaptures(browser_page, self_debug).matches, 1),
                            self_max_posts, self_debug)
    /\ ppc' = "extracted"
    /\ UNCHANGED <<browser_page, clock, self_max_posts, self_debug>>
    /\ UNCHANGED writerVars
    /\ UNCHANGED runVars
    /\ UNCHANGED funVars

PNext == ExtractPosts

SpecPost == PInit /\ [][PNext]_vars


(***************************************************************************)
(* One run of main (src/app.py, lines 374-395): the handler of the         *)
(* "Scrape Profiles" button, with the scraper methods it calls.            *)
(***************************************************************************)
MaxProfiles == 2

SessionId == 1

ProfileUrls == {"linkedin.com/in/ann", "linkedin.com/in/bob"}

\* extract_profile_name on the profile's page
NameOf(url) == IF url = "linkedin.com/in/ann" THEN <<"A", "n", "n">> ELSE <<"B", "o", "b">>

\* What the containers of a profile page can be: none, one plain post, a
\* post whose text extraction fails before a plain post.  (Pages with a
\* post that raises in the loop are those of SpecPost.)
RunContainers ==
    {<<>>,
     <<PlainPost>>,
     <<[PlainPost EXCEPT !.text_raises = TRUE], PlainPost>>}

RunPages(url) ==
    {[profile_name |-> NameOf(url), profile_url |-> url,
      matches |-> <<(<<>>), cs, (<<>>)>>, extract_raises |-> FALSE] : cs \in RunContainers}
    \cup {[profile_name |-> NameOf(url), profile_url |-> url,
           matches |-> <<(<<PlainPost>>), (<<>>), (<<>>)>>, extract_raises |-> TRUE]}

\* A cumulative file an earlier session left behind.
EarlierDataset ==
    WriteCumulative(AbsentFile,
        extract_posts([EmptyPage EXCEPT !.matches = <<(<<PlainPost>>), (<<>>), (<<>>)>>],
                      DefaultMaxPosts, [day |-> 0, sec |-> 30], 0))

Init ==
    /\ FunIdle
    /\ pc = "button"
    /\ creds \in BOOLEAN
    /\ driver = "none"
    /\ logged_in = FALSE
    /\ auth = NotSeen
    /\ acked = FALSE
    /\ profile_urls \in SeqsUpTo(ProfileUrls, MaxProfiles)
    /\ idx = 1
    /\ status = [i \in 1..Len(profile_urls) |-> "NotStarted"]
    /\ contrib = [i \in 1..Len(profile_urls) |-> <<>>]
    /\ run_posts = <<>>
    /\ ret = NoReturn
    /\ shown = "none"
    /\ events = <<>>
    /\ output_file \in {AbsentFile, EarlierDataset}
    /\ session_file = AbsentFile
    /\ runs = 0
    /\ log = <<>>
    /\ last_posts = <<>>
    /\ op = "none"
    /\ cum_before = AbsentFile
    /\ browser_page = EmptyPage
    /\ clock = [day |-> 2, sec |-> 34215]
    /\ self_max_posts = DefaultMaxPosts
    /\ self_debug = TRUE
    /\ captures = <<>>
    /\ posts = <<>>
    /\ ppc = "idle"

\* app.py lines 375-380: the credentials test and LinkedInScraper(...).
\* The constructor can raise before the browser exists (setup_driver) or
\* after it (the debug page load and screenshot, lines 81-85).
Construct ==
    /\ pc = "button"
    /\ IF ~creds
       THEN /\ shown' = "no_credentials"
            /\ pc' = "done"
            /\ UNCHANGED driver
       ELSE \E fault \in {"none", "no_driver", "after_driver"} :
              /\ driver' = IF fault = "no_driver" THEN "none" ELSE "open"
              /\ shown' = IF fault = "none" THEN shown ELSE "error"
              /\ pc' = IF fault = "none" THEN "login" ELSE "done"
    /\ UNCHANGED <<creds, logged_in, auth, acked, profile_urls, idx, status, contrib,
                   run_posts, ret, events>>
    /\ UNCHANGED writerVars
    /\ UNCHANGED postVars
    /\ UNCHANGED funVars

\* login that takes every submitted login for authenticated.
login_outcome_optimistic(landmark, challenge) == "authenticated"

\* login, lines 114-138, after the submit button was clicked: landmark says
\* that global-nav appeared within the wait, challenge that the page source
\* holds "security verification" or "challenge".
login_outcome(landmark, challenge) ==
    IF landmark THEN "authenticated"
    ELSE IF challenge THEN "challenge"
    ELSE "failure"

\* What one call of login meets: an exception before the landmark wait,
\* else the landmark and the challenge text, and whether the debug
\* screenshot of the branch taken raises.
LoginObservations ==
    [raises_early : BOOLEAN, landmark : BOOLEAN, challenge : BOOLEAN, shot_raises : BOOLEAN]

\* What login leaves behind on observation o: the flag, and where main goes.
LoginResult(o, outcome) ==
    [logged_in |-> outcome = "authenticated",
     pc |-> IF o.shot_raises THEN "done"
            ELSE IF outcome = "authenticated" THEN "scrape"
            ELSE IF outcome = "challenge" THEN "await_ack"
            ELSE "done",
     shown |-> IF o.shot_raises THEN "error"
               ELSE IF outcome = "failure" THEN "login_failed"
               ELSE "none"]

\* scraper.login() (app.py line 381; linkedin_scraper.py lines 87-144) up to
\* its return, its raise, or the input() of line 131.  An exception is
\* re-raised (line 144) and main shows it (app.py lines 396-397).
Login ==
    /\ pc = "login"
    /\ \E o \in LoginObservations :
         IF o.raises_early
         THEN /\ pc' = "done"
              /\ shown' = "error"
              /\ UNCHANGED <<logged_in, auth>>
         ELSE /\ auth' = [seen |-> TRUE, landmark |-> o.landmark, challenge |-> o.challenge]
              /\ logged_in' = LoginResult(o, login_outcome(o.landmark, o.challenge)).logged_in
              /\ pc' = LoginResult(o, login_outcome(o.landmark, o.challenge)).pc
              /\ shown' = LoginResult(o, login_outcome(o.landmark, o.challenge)).shown
    /\ UNCHANGED <<creds, driver, acked, profile_urls, idx, status, contrib, run_posts, ret,
                   events>>
    /\ UNCHANGED writerVars
    /\ UNCHANGED postVars
    /\ UNCHANGED funVars

\* Lines 131-132: input() returns when the operator presses Enter, and the
\* flag is set; or input() raises (no terminal), which login re-raises.
Acknowledge ==
    /\ pc = "await_ack"
    /\ \E received \in BOOLEAN :
         /\ acked' = received
         /\ logged_in' = received
         /\ pc' = IF received THEN "scrape" ELSE "done"
         /\ shown' = IF received THEN shown ELSE "error"
    /\ UNCHANGED <<creds, driver, auth, profile_urls, idx, status, contrib, run_posts, ret,
                   events>>
    /\ UNCHANGED writerVars
    /\ UNCHANGED postVars
    /\ UNCHANGED funVars

\* navigate_to_profile, lines 146-207: True when the browser ends on the
\* activity page and one of the post selectors is present; a wrong page, no
\* post element or an exception give False (or raise from the handler's
\* screenshot, which scrape_profile turns into the same empty result).
navigate_to_profile(load, page) ==
    load = "loaded" /\ \E k \in 1..Len(page.matches) : page.matches[k] # <<>>

\* One finished step of scrape_multiple_profiles, as the history keeps it.
Event(step, profile, ok, delay) ==
    [step |-> step, profile |-> profile, ok |-> ok, delay |-> delay]

\* A scrape_profile that goes on after a failed navigation.
NavigationStatus_goes_on(navigated) == "Navigated"

\* scrape_profile, lines 984-986: a navigation that fails ends the
\* profile with no posts, before scrolling and extraction.
NavigationStatus(navigated) == IF navigated THEN "Navigated" ELSE "Failed"

\* A delay drawn from an interval that starts at zero.
uniform_from_zero(a, b) == {0, b}

\* random.uniform(a, b), line 1017: a value of the closed interval from a to
\* b; its two ends stand for the interval.
uniform(a, b) == {a, b}

\* The ends of the pacing delay, in seconds (line 1017).
PaceMin == 10
PaceMax == 15

\* One call of login (lines 87-144) on observation o, received saying
\* whether the input() of the challenge branch returns: whether the call
\* raises, and the flag it leaves.  The flag is set before the screenshot
\* of the landmark branch (lines 118-122) and after the screenshot and the
\* input() of the challenge branch (lines 129-134).
login_call(o, received) ==
    [called |-> TRUE,
     raised |-> \/ o.raises_early
                \/ o.shot_raises
                \/ login_outcome(o.landmark, o.challenge) = "challenge" /\ ~received,
     logged_in |-> /\ ~o.raises_early
                   /\ \/ login_outcome(o.landmark, o.challenge) = "authenticated"
                      \/ /\ login_outcome(o.landmark, o.challenge) = "challenge"
                         /\ ~o.shot_raises
                         /\ received]

\* Lines 148-149: navigate_to_profile calls login when the flag is not set,
\* outside its try and without looking at what login returns.
LoginCalls(flag) ==
    IF flag THEN {[called |-> FALSE, raised |-> FALSE, logged_in |-> TRUE]}
    ELSE {login_call(o, received) : o \in LoginObservations, received \in BOOLEAN}

\* scrape_profile, lines 983-986, inside the loop of lines 1005-1019: a
\* navigation that fails ends the profile with no posts; the loop logs it,
\* sleeps and goes on.  An exception of the login that navigate_to_profile
\* calls reaches the handler of lines 997-999 before any page is requested.
Navigate ==
    /\ pc = "scrape"
    /\ idx <= Len(profile_urls)
    /\ status[idx] = "NotStarted"
    /\ \E r \in LoginCalls(logged_in) :
         /\ logged_in' = r.logged_in
         /\ IF r.raised
            THEN /\ status' = [status EXCEPT ![idx] = "Failed"]
                 /\ UNCHANGED browser_page
                 /\ \E delay \in uniform(PaceMin, PaceMax) :
                      /\ idx' = idx + 1
                      /\ events' = events \o
                            <<Event("login_raised", idx, FALSE, 0),
                              Event("sleep", idx, TRUE, delay)>>
            ELSE \E load \in {"loaded", "wrong_page", "raises"},
                    page \in RunPages(profile_urls[idx]) :
                   /\ status' = [status EXCEPT
                                    ![idx] = NavigationStatus(navigate_to_profile(load, page))]
                   /\ browser_page' = IF navigate_to_profile(load, page)
                                      THEN page ELSE browser_page
                   /\ IF status'[idx] = "Failed"
                      THEN \E delay \in uniform(PaceMin, PaceMax) :
                             /\ idx' = idx + 1
                             /\ events' = events
                                   \o (IF r.called
                                       THEN <<Event("login", idx, r.logged_in, 0)>>
                                       ELSE <<>>)
                                   \o <<Event("navigate", idx, navigate_to_profile(load, page), 0),
                                        Event("sleep", idx, TRUE, delay)>>
                      ELSE /\ events' = events
                                   \o (IF r.called
                                       THEN <<Event("login", idx, r.logged_in, 0)>>
                                       ELSE <<>>)
                                   \o <<Event("navigate", idx, navigate_to_profile(load, page), 0)>>
                           /\ UNCHANGED idx
    /\ UNCHANGED <<pc, creds, driver, auth, acked, profile_urls, contrib,
                   run_posts, ret, shown>>
    /\ UNCHANGED writerVars
    /\ UNCHANGED <<clock, self_max_posts, self_debug, captures, posts, ppc>>
    /\ UNCHANGED funVars

\* scroll_and_expand_posts, lines 220-258.  scroll_raises: a scroll command
\* of lines 231-239 raises (scroll_to_top and expand_all_see_more catch
\* their own exceptions).  shot_raises: self.debug is set and the browser
\* cannot take a screenshot during the call; then line 228 raises inside the try, and the
\* handler's own capture (lines 256-257) raises out of the method.  Without
\* that the handler returns False.
scroll_and_expand_posts(scroll_raises, shot_raises) ==
    IF shot_raises THEN "raised"
    ELSE IF scroll_raises THEN "issue"
    ELSE "done"

\* Lines 988-990: scrape_profile logs a False of scroll_and_expand_posts and
\* goes on; an exception out of it reaches the handler of lines 997-999,
\* which returns [] without extraction, and the loop sleeps and goes on.
Materialize ==
    /\ pc = "scrape"
    /\ idx <= Len(profile_urls)
    /\ status[idx] = "Navigated"
    /\ \E scroll_raises \in BOOLEAN,
          shot_raises \in (IF self_debug THEN BOOLEAN ELSE {FALSE}) :
         IF scroll_and_expand_posts(scroll_raises, shot_raises) = "raised"
         THEN /\ status' = [status EXCEPT ![idx] = "Failed"]
              /\ \E delay \in uniform(PaceMin, PaceMax) :
                   /\ idx' = idx + 1
                   /\ events' = events \o
                         <<Event("materialize_raised", idx, FALSE, 0),
                           Event("sleep", idx, TRUE, delay)>>
         ELSE /\ status' = [status EXCEPT ![idx] = "Materialized"]
              /\ events' = Append(events,
                    Event("materialize", idx,
                          scroll_and_expand_posts(scroll_raises, shot_raises) = "done", 0))
              /\ UNCHANGED idx
    /\ UNCHANGED <<pc, creds, driver, logged_in, auth, acked, profile_urls, contrib,
                   run_posts, ret, shown>>
    /\ UNCHANGED writerVars
    /\ UNCHANGED postVars
    /\ UNCHANGED funVars

\* Line 993: posts = self.extract_posts()
Extract ==
    /\ pc = "scrape"
    /\ idx <= Len(profile_urls)
    /\ status[idx] = "Materialized"
    /\ posts' = extract_posts(WithCaptures(browser_page, self_debug),
                              self_max_posts, clock, SessionId)
    /\ captures' = Captures(browser_page,
                            FirstMatches(WithCaptures(browser_page, self_debug).matches, 1),
                            self_max_posts, self_debug)
    /\ status' = [status EXCEPT ![idx] = "Extracted"]
    /\ events' = Append(events, Event("extract", idx, TRUE, 0))
    /\ UNCHANGED <<pc, creds, driver, logged_in, auth, acked, profile_urls, idx, contrib,
                   run_posts, ret, shown>>
    /\ UNCHANGED writerVars
    /\ UNCHANGED <<browser_page, clock, self_max_posts, self_debug, ppc>>
    /\ UNCHANGED funVars

\* Lines 1009-1019: the profile's posts extend all_posts, then the pacing
\* sleep, then the next url.
Collect ==
    /\ pc = "scrape"
    /\ idx <= Len(profile_urls)
    /\ status[idx] = "Extracted"
    /\ run_posts' = run_posts \o posts
    /\ contrib' = [contrib EXCEPT ![idx] = posts]
    /\ status' = [status EXCEPT ![idx] = "Done"]
    /\ \E delay \in uniform(PaceMin, PaceMax) :
         /\ idx' = idx + 1
         /\ events' = Append(events, Event("sleep", idx, TRUE, delay))
    /\ UNCHANGED <<pc, creds, driver, logged_in, auth, acked, profile_urls, ret, shown>>
    /\ UNCHANGED writerVars
    /\ UNCHANGED postVars
    /\ UNCHANGED funVars

\* The exceptions the writer of lines 1024-1049 can meet: the session file
\* cannot be written, the cumulative file cannot be read (it exists but is
\* empty, locked or unreadable) or cannot be written.  With no posts the
\* writer touches no file.
WriteFaults(all_posts, file) ==
    IF all_posts = <<>> THEN {"none"}
    ELSE {"none", "session_write", "cumulative_write"}
         \cup (IF file.exists THEN {"cumulative_read"} ELSE {})

\* df_combined (line 1039), df_new (line 1046) or the empty frame (line 1049)
DfAll(file, all_posts) ==
    IF all_posts = <<>> THEN <<>>
    ELSE IF file.exists THEN drop_duplicates(read_csv(file.rows) \o all_posts)
    ELSE all_posts

\* The file operations of the writer in the order it performs them, up to
\* the one that raises: the session file is written (line 1031), then the
\* cumulative file is read if it exists (line 1036) and written (line 1040
\* or 1044).
FileSteps(all_posts, file, fault) ==
    IF all_posts = <<>> THEN <<>>
    ELSE <<Event("session_write", 0, fault # "session_write", 0)>>
         \o (IF fault # "session_write" /\ file.exists
             THEN <<Event("cumulative_read", 0, fault # "cumulative_read", 0)>>
             ELSE <<>>)
         \o (IF fault \in {"none", "cumulative_write"}
             THEN <<Event("cumulative_write", 0, fault = "none", 0)>>
             ELSE <<>>)

\* Lines 1024-1049 after the loop: nothing catches an exception of the
\* writer, so it leaves scrape_multiple_profiles and main shows it
\* (app.py lines 396-397).
Write ==
    /\ pc = "scrape"
    /\ idx > Len(profile_urls)
    /\ \E fault \in WriteFaults(run_posts, output_file) :
         /\ session_file' = IF fault = "session_write" THEN session_file
                            ELSE WriteSession(session_file, run_posts)
         /\ output_file' = IF fault = "none" THEN WriteCumulative(output_file, run_posts)
                           ELSE output_file
         /\ ret' = IF fault = "none"
                   THEN [kind |-> "returned", df_new |-> run_posts,
                         df_all |-> DfAll(output_file, run_posts)]
                   ELSE ret
         /\ pc' = IF fault = "none" THEN "close" ELSE "done"
         /\ shown' = IF fault = "none" THEN shown ELSE "error"
         /\ events' = events \o FileSteps(run_posts, output_file, fault)
    /\ UNCHANGED <<creds, driver, logged_in, auth, acked, profile_urls, idx, status, contrib,
                   run_posts>>
    /\ UNCHANGED <<runs, log, last_posts, op, cum_before>>
    /\ UNCHANGED postVars
    /\ UNCHANGED funVars

\* app.py lines 385-393: scraper.close(), then the message.
Close ==
    /\ pc = "close"
    /\ driver' = "closed"
    /\ shown' = IF ret.df_new # <<>> THEN "success" ELSE "warning"
    /\ pc' = "done"
    /\ UNCHANGED <<creds, logged_in, auth, acked, profile_urls, idx, status, contrib,
                   run_posts, ret, events>>
    /\ UNCHANGED writerVars
    /\ UNCHANGED postVars
    /\ UNCHANGED funVars

Next ==
    \/ Construct
    \/ Login
    \/ Acknowledge
    \/ Navigate
    \/ Materialize
    \/ Extract
    \/ Collect
    \/ Write
    \/ Close

Spec == Init /\ [][Next]_vars

\* scrape_multiple_profiles called on a scraper whose flag is not set (login
\* was not called, or it returned False and the caller went on): the
\* browser is open, no cumulative file exists yet.
ScrapeInit ==
    /\ FunIdle
    /\ pc = "scrape"
    /\ creds = TRUE
    /\ driver = "open"
    /\ logged_in = FALSE
    /\ auth = NotSeen
    /\ acked = FALSE
    /\ profile_urls \in SeqsUpTo(ProfileUrls, MaxProfiles)
    /\ idx = 1
    /\ status = [i \in 1..Len(profile_urls) |-> "NotStarted"]
    /\ contrib = [i \in 1..Len(profile_urls) |-> <<>>]
    /\ run_posts = <<>>
    /\ ret = NoReturn
    /\ shown = "none"
    /\ events = <<>>
    /\ DataInit
    /\ browser_page = EmptyPage
    /\ clock = [day |-> 2, sec |-> 34215]
    /\ self_max_posts = DefaultMaxPosts
    /\ self_debug = TRUE
    /\ captures = <<>>
    /\ posts = <<>>
    /\ ppc = "idle"

ScrapeNext ==
    \/ Navigate
    \/ Materialize
    \/ Extract
    \/ Collect
    \/ Write

SpecScrape == ScrapeInit /\ [][ScrapeNext]_vars


(***************************************************************************)
(* One call of parse_count, parse_date or is_original_post on its own: the *)
(* arguments are drawn in the initial state, the action applies the method.*)
(***************************************************************************)
\* Count texts  <whole><fraction><suffix><tail>  and texts of other shapes.
CountWholes == {<<"0">>, <<"2">>, <<"3">>, <<"1", "2">>, <<"0", "0", "7">>}
CountFractions == {<<>>, <<".", "2">>, <<".", "2", "5">>}
CountSuffixes == {<<>>, <<"K">>, <<"k">>, <<"M">>, <<"m">>}
CountTails == {<<>>, <<" ", "r", "e", "a", "c", "t", "i", "o", "n", "s">>, <<" ", "c", "o", "m", "m", "e", "n", "t", "s">>}

\* A numeral of nine digits, and a numeral too long for a float.
BigWhole == <<"1", "2", "3", "4", "5", "6", "7", "8", "9">>
Nines == [i \in 1..(FloatMaxDigits + 1) |-> "9"]

NoNumberTexts == {<<>>, <<"c", "o", "m", "m", "e", "n", "t", "s">>, <<"n", "o", " ", "r", "e", "a", "c", "t", "i", "o", "n", "s", " ", "y", "e", "t">>, <<"-">>}

CountArguments ==
    {w \o f \o x \o t : w \in CountWholes, f \in CountFractions, x \in CountSuffixes,
                        t \in CountTails}
    \cup NoNumberTexts
    \cup {BigWhole \o <<" ", "c", "o", "m", "m", "e", "n", "t", "s">>}
    \cup {Nines \o <<" ", "c", "o", "m", "m", "e", "n", "t", "s">>, <<".", "5", "K">>, <<"1", ",", "2", "3", "4">>, <<"1", ",", "2", "3", "4", ",", "5", "6", "7", " ", "v", "i", "e", "w", "s">>, <<"a", "b", "o", "u", "t", " ", "3", " ", "l", "i", "k", "e", "s">>}

\* Date texts of the four forms and texts of none of them.
DateValues == {0, 1, 2, 45, 2030}
AgoTexts ==
    {Numeral(n) \o <<" ">> \o AgoUnits[u] \o plural \o <<" ">> \o W_ago :
        n \in DateValues, u \in 1..Len(AgoUnits), plural \in {<<>>, <<"s">>}}
CompactTexts == {Numeral(n) \o ShortUnits[u] : n \in DateValues, u \in 1..Len(ShortUnits)}
NowTexts == {W_just_now, W_now, <<"J", "u", "s", "t", " ", "n", "o", "w">>}
AbsoluteTexts == {<<"J", "a", "n", " ", "5", ",", " ", "2", "0", "2", "4">>, <<"J", "a", "n", "u", "a", "r", "y", " ", "5", ",", " ", "2", "0", "2", "4">>}
Garbage == <<"g", "a", "r", "b", "a", "g", "e">>
UnrecognisedTexts ==
    {Garbage, <<>>, W_Unknown_date, <<"3", " ", "d", "o", "g", "s">>, <<"2", "0", "2", "3", " ", "s", "u", "m", "m", "e", "r">>, <<"h", "e", "l", "l", "o", " ", "w", "o", "r", "l", "d">>, <<"y", "e", "s", "t", "e", "r", "d", "a", "y">>}
DateArguments == AgoTexts \cup CompactTexts \cup NowTexts \cup AbsoluteTexts \cup UnrecognisedTexts

\* Containers: a leading text with or without an activity phrase, with or
\* without elements the content selectors find, and a failing driver call.
LeadingTexts ==
    {<<"A", "n", "n", "\n", "H", "e", "l", "l", "o", " ", "#", "A", "I">>, <<"R", "e", "p", "o", "s", "t", "e", "d", "\n", "A", "n", "n", "\n", "H", "e", "l", "l", "o">>, <<"l", "i", "k", "e", "d", " ", "b", "y", " ", "B", "o", "b", "\n", "H", "e", "l", "l", "o">>, <<"A", "n", "n", "\n", "s", "h", "a", "r", "e", "d", " ", "t", "h", "i", "s", "\n", "H", "e", "l", "l", "o">>, <<"A", "n", "n", " ", "s", "h", "a", "r", "e", "d", " ", "t", "h", "i", "s", "\n", "H", "e", "l", "l", "o">>, <<"S", "h", "a", "r", "i", "n", "g", " ", "m", "y", " ", "n", "e", "w", "s">>, <<"A", "n", "n", " ", "L", "e", "e", ",", " ", "f", "o", "u", "n", "d", "e", "r", " ", "a", "n", "d", " ", "c", "h", "i", "e", "f", " ", "e", "x", "e", "c", "u", "t", "i", "v", "e", " ", "o", "f", " ", "E", "x", "a", "m", "p", "l", "e", " ", "C", "o", "\n", "f", "o", "l", "l", "o", "w", "s", " ", "y", "o", "u">>, <<>>}
ContentElements ==
    {<<>>,
     <<[sel |-> 1, text |-> <<"H", "e", "l", "l", "o", " ", "#", "A", "I", " ", "#", "T", "e", "c", "h">>]>>,
     <<[sel |-> 5, text |-> <<"W", "o", "r", "l", "d">>]>>,
     <<[sel |-> 2, text |-> <<" ", "\n">>]>>,
     <<[sel |-> 3, text |-> <<>>], [sel |-> 4, text |-> <<"W", "o", "r", "l", "d">>]>>}
Containers ==
    {[PlainPost EXCEPT !.text = t, !.content = c, !.classify_raises = r] :
        t \in LeadingTexts, c \in ContentElements, r \in BOOLEAN}

FunCalls ==
    {[fn |-> "parse_count", text |-> t] : t \in CountArguments}
    \cup {[fn |-> "parse_date", text |-> t, now |-> n] : t \in DateArguments, n \in Clocks}
    \cup {[fn |-> "is_original_post", post |-> c] : c \in Containers}

FInit ==
    /\ DataInit
    /\ PostIdle
    /\ RunIdle
    /\ call \in FunCalls
    /\ result = Pending

\* parse_count(text), lines 927-953
ParseCount ==
    /\ call.fn = "parse_count"
    /\ result = Pending
    /\ result' = [value |-> parse_count(call.text)]
    /\ UNCHANGED <<call, writerVars, postVars, runVars>>

\* parse_date(date_text), lines 682-750, at the time now
ParseDate ==
    /\ call.fn = "parse_date"
    /\ result = Pending
    /\ result' = [value |-> parse_date(call.text, call.now)]
    /\ UNCHANGED <<call, writerVars, postVars, runVars>>

\* is_original_post(post), lines 482-517
IsOriginalPost ==
    /\ call.fn = "is_original_post"
    /\ result = Pending
    /\ result' = [value |-> is_original_post(call.post)]
    /\ UNCHANGED <<call, writerVars, postVars, runVars>>

FNext == ParseCount \/ ParseDate \/ IsOriginalPost

SpecFun == FInit /\ [][FNext]_vars


(***************************************************************************)
(* Claims about the dataset writer (checked under SpecWriter)              *)
(***************************************************************************)
RowsWithKey(rows, k) == {i \in 1..Len(rows) : Key(rows[i]) = k}

\* The sessions (by session_id) in which a record with key k was written.
SessionsWriting(k) == {log[i].session_id : i \in RowsWithKey(log, k)}

\* The earliest-written record with key k.
FirstWritten(k) ==
    log[CHOOSE i \in RowsWithKey(log, k) : \A j \in RowsWithKey(log, k) : i <= j]

\* C1: after any sequence of runs the cumulative dataset holds no two
\* records with the same (profile_name, post_text) pair.
C1_CumulativeKeysUnique ==
    \A i, j \in 1..Len(output_file.rows) :
        i # j => Key(output_file.rows[i]) # Key(output_file.rows[j])

\* C2: writing the same session records a second time leaves the cumulative
\* dataset as the first write left it.
C2_WriterIdempotent ==
    op = "rewrite" => output_file = cum_before

\* C3: when two sessions each wrote a record with key k, the cumulative
\* dataset holds exactly one record with key k, and it is the record that
\* was written first.
C3_FirstWrittenKept ==
    \A k \in ProfileNames \X PostTexts :
        Cardinality(SessionsWriting(k)) >= 2 =>
            /\ Cardinality(RowsWithKey(output_file.rows, k)) = 1
            /\ \A i \in RowsWithKey(output_file.rows, k) :
                 output_file.rows[i] = FirstWritten(k)

(***************************************************************************)
(* Claims about one run of main (checked under Spec)                       *)
(***************************************************************************)
\* C4: when a run in which a browser was acquired has ended, the browser
\* has been closed, whichever way the run ended.
C4_BrowserReleased ==
    (pc = "done" /\ driver # "none") => driver = "closed"

\* C5: the session is authenticated exactly when login saw the landmark, or
\* saw a challenge and the acknowledgement was then received; while the
\* acknowledgement is awaited it is not authenticated; when login saw
\* neither, the run ends with the flag false and no profile was attempted;
\* and profiles are only scraped by an authenticated session.
C5_AuthenticationOutcomes ==
    /\ logged_in <=> (auth.seen /\ (auth.landmark \/ (auth.challenge /\ acked)))
    /\ pc = "await_ack" => (auth.seen /\ ~auth.landmark /\ auth.challenge /\ ~logged_in)
    /\ acked => (auth.challenge /\ ~auth.landmark)
    /\ (auth.seen /\ ~auth.landmark /\ ~auth.challenge) =>
          /\ ~logged_in
          /\ pc = "done"
          /\ shown \in {"login_failed", "error"}
          /\ \A i \in 1..Len(status) : status[i] = "NotStarted"
          /\ run_posts = <<>>
          /\ ret = NoReturn
    /\ pc \in {"scrape", "close"} => logged_in

\* C5's case: login saw neither the landmark nor a challenge and main
\* reported the failed login.
C5_Witness ==
    /\ pc = "done"
    /\ auth.seen /\ ~auth.landmark /\ ~auth.challenge
    /\ shown = "login_failed"
    /\ Len(profile_urls) > 0

\* The records the profiles contributed, in list order.
RECURSIVE Flatten(_)
Flatten(seqs) == IF seqs = <<>> THEN <<>> ELSE Head(seqs) \o Flatten(Tail(seqs))

KeysOf(rows) == {Key(rows[i]) : i \in 1..Len(rows)}

\* C6: in a run where the navigation of some profile failed, that profile
\* contributed no record, and once the run has ended every profile of the
\* list was attempted and the records of the other profiles were returned
\* and are in the session file and the cumulative file.
C6_FailedNavigationIsolated ==
    (\E i \in 1..Len(status) : status[i] = "Failed") =>
        /\ \A i \in 1..Len(status) : status[i] = "Failed" => contrib[i] = <<>>
        /\ run_posts = Flatten(contrib)
        /\ pc = "done" =>
             /\ \A i \in 1..Len(status) : status[i] \in {"Done", "Failed"}
             /\ ret.kind = "returned"
             /\ ret.df_new = run_posts
             /\ run_posts # <<>> =>
                  /\ session_file.exists
                  /\ session_file.rows = to_csv(run_posts)
                  /\ KeysOf(to_csv(run_posts)) \subseteq KeysOf(output_file.rows)

\* C8: a run that started on its profiles ends with every profile Done or
\* Failed and with the extracted records returned to the caller.
C8_RunAlwaysReturns ==
    (pc = "done" /\ Len(profile_urls) > 0 /\ status[1] # "NotStarted") =>
        /\ \A i \in 1..Len(status) : status[i] \in {"Done", "Failed"}
        /\ ret.kind = "returned"
        /\ ret.df_new = Flatten(contrib)

(***************************************************************************)
(* Claims about the records of one page (checked under SpecPost)           *)
(***************************************************************************)
\* The containers extract_posts looks at on the page in the browser, a
\* debug screenshot that raises counted as a raise in the loop.
Candidates == FirstMatches(WithCaptures(browser_page, self_debug).matches, 1)

TextExtractionWorks(c) == ~c.text_raises

\* C7: the records of a page are those of the page without the containers
\* whose text extraction raises: such a container yields no record and the
\* other containers are processed as if it were not there.
C7_FieldFailureSkipsPost ==
    ppc = "extracted" =>
        posts = extract_posts(
                    [browser_page EXCEPT !.matches = <<SelectSeq(Candidates, TextExtractionWorks)>>],
                    self_max_posts, clock, 1)

IsCount(x) == IsInteger(x) /\ x.n >= 0

\* C9: in every record total_engagement is reactions + comments + reposts
\* and the four values are non-negative integers.
C9_EngagementIntegers ==
    \A i \in 1..Len(posts) :
        /\ posts[i].total_engagement
             = NumAdd(NumAdd(posts[i].reactions, posts[i].comments), posts[i].reposts)
        /\ IsCount(posts[i].reactions)
        /\ IsCount(posts[i].comments)
        /\ IsCount(posts[i].reposts)
        /\ IsCount(posts[i].total_engagement)

\* A container the loop makes a record of.
IsProcessed(c) == ~c.loop_raises /\ is_original_post(c)

AllUnknown(r) ==
    r.post_date = W_Unknown /\ r.day_of_week = W_Unknown /\ r.hour_of_day = W_Unknown

\* The day a formatted timestamp names, read back from its text.
StampDay(t) ==
    DaysFromCivil(DigitsVal(SubSeq(t, 1, 4)), DigitsVal(SubSeq(t, 6, 7)),
                  DigitsVal(SubSeq(t, 9, 10))) - EpochDay

\* The day name and the hour are those of the formatted timestamp.
SameTimestamp(r) ==
    /\ Len(r.post_date) = 19
    /\ r.hour_of_day = SubSeq(r.post_date, 12, 13)
    /\ r.day_of_week = DayNames[(StampDay(r.post_date) % 7) + 1]

Min(a, b) == IF a <= b THEN a ELSE b

\* C10: every container the loop processes yields its record, until the
\* loop stops after the record that reaches the limit (after the first
\* record at the latest), whatever its date text; when the date text does not parse the
\* three date fields are "Unknown", when it parses they are the formatted
\* timestamp, the day name and the hour of that one timestamp.
C10_DateFieldsConsistent ==
    ppc = "extracted" =>
        /\ Len(posts) = Min(Len(SelectSeq(Candidates, IsProcessed)), Max(self_max_posts, 1))
        /\ \A i \in 1..Len(posts) :
             /\ posts[i].post_date_text = extract_post_date(SelectSeq(Candidates, IsProcessed)[i])
             /\ parse_date(posts[i].post_date_text, clock) = None => AllUnknown(posts[i])
             /\ parse_date(posts[i].post_date_text, clock) # None =>
                  /\ posts[i].post_date = FormatDate(parse_date(posts[i].post_date_text, clock))
                  /\ SameTimestamp(posts[i])
             /\ AllUnknown(posts[i]) \/ SameTimestamp(posts[i])

\* C10's case: a record was made of a post whose date text is no date, and
\* its three date fields are "Unknown".
C10_Witness ==
    /\ ppc = "extracted"
    /\ \E i \in 1..Len(posts) :
         /\ posts[i].post_date_text = <<"g", "a", "r", "b", "a", "g", "e">>
         /\ AllUnknown(posts[i])

(***************************************************************************)
(* Claims about the order of the steps of a run (checked under Spec)       *)
(***************************************************************************)
PipelineSteps == {"navigate", "materialize", "extract"}

StepRank(step) ==
    CASE step = "navigate" -> 1
      [] step = "materialize" -> 2
      [] step = "extract" -> 3
      [] OTHER -> 4

\* An event of the given step and profile stands before position b.
Earlier(b, step, profile) ==
    \E a \in 1..(b - 1) : events[a].step = step /\ events[a].profile = profile

\* C11: the steps of the profiles finish in the order of the url list and,
\* within a profile, navigation before materialization before extraction;
\* materialization follows only a navigation that succeeded, extraction
\* only a materialization, so a profile whose navigation failed has neither.
C11_PipelineOrdered ==
    /\ \A a, b \in 1..Len(events) :
         (a < b /\ events[a].step \in PipelineSteps /\ events[b].step \in PipelineSteps) =>
             /\ events[a].profile <= events[b].profile
             /\ events[a].profile = events[b].profile =>
                  StepRank(events[a].step) < StepRank(events[b].step)
    /\ \A b \in 1..Len(events) :
         /\ events[b].step = "materialize" =>
              \E a \in 1..(b - 1) : events[a] = Event("navigate", events[b].profile, TRUE, 0)
         /\ events[b].step = "extract" => Earlier(b, "materialize", events[b].profile)
         /\ (events[b].step = "navigate" /\ ~events[b].ok) =>
              /\ status[events[b].profile] = "Failed"
              /\ \A c \in 1..Len(events) :
                   events[c].profile = events[b].profile =>
                       events[c].step \notin {"materialize", "extract"}

\* C11's case: the navigation of the first profile failed, and the second
\* profile went through navigation, materialization and extraction.
C11_Witness ==
    /\ Len(profile_urls) = 2
    /\ \E a \in 1..Len(events) : events[a] = Event("navigate", 1, FALSE, 0)
    /\ \E b \in 1..Len(events) : events[b] = Event("extract", 2, TRUE, 0)

\* C12: the navigation of every profile but the first comes after a pacing
\* sleep of 10 to 15 seconds that followed the last step of the profile
\* before it, whether that profile ended Done or Failed.
C12_PacingBetweenProfiles ==
    \A b \in 1..Len(events) :
        (events[b].step = "navigate" /\ events[b].profile > 1) =>
            /\ status[events[b].profile - 1] \in {"Done", "Failed"}
            /\ \E a \in 1..(b - 1) :
                 /\ events[a].step = "sleep"
                 /\ events[a].profile = events[b].profile - 1
                 /\ events[a].delay >= PaceMin
                 /\ events[a].delay <= PaceMax
                 /\ \A c \in 1..Len(events) :
                      (events[c].profile = events[a].profile
                         /\ events[c].step \in PipelineSteps) => c < a

\* C12's case: the first profile failed at navigation and the navigation
\* of the second profile has run.
C12_Witness ==
    /\ Len(profile_urls) = 2
    /\ status[1] = "Failed"
    /\ \E b \in 1..Len(events) : events[b].step = "navigate" /\ events[b].profile = 2

(***************************************************************************)
(* Claims about the parsers and the classifier (checked under SpecFun)     *)
(***************************************************************************)
\* The call of method fn has returned.
Returned(fn) == call.fn = fn /\ result # Pending

\* The factor a suffix stands for.
Scale(x) ==
    IF x \in {<<"K">>, <<"k">>} THEN 1000
    ELSE IF x \in {<<"M">>, <<"m">>} THEN 1000000
    ELSE 1

\* C13: the count of a text that starts with a number, its decimal part
\* and its suffix is that number times 1000 for k/K and times 1000000 for
\* m/M, truncated: "1.2K reactions" gives 1200 and "2M" gives 2000000.
C13_SuffixScaled ==
    Returned("parse_count") =>
        \A w \in CountWholes, f \in CountFractions, x \in CountSuffixes, t \in CountTails :
            call.text = w \o f \o x \o t =>
                result.value = Trunc(NumMul(FloatOf(w \o f), Scale(x)))

Minus(now, days, secs) ==
    [day |-> now.day - days + ((now.sec - secs) \div SecondsPerDay),
     sec |-> (now.sec - secs) % SecondsPerDay]

\* The durations of the units of the "N <unit> ago" form, in the order of
\* AgoUnits: minute, hour, day, week, month (30 days), year (365 days).
AgoUnitDays == <<0, 0, 1, 7, 30, 365>>
AgoUnitSecs == <<60, 3600, 0, 0, 0, 0>>

\* C15 as stated: "N <unit> ago", with or without the plural s, is now
\* minus N units for every N >= 0, and "just now" is now.
C15_AgoForm ==
    Returned("parse_date") =>
        /\ call.text = W_just_now => result.value = call.now
        /\ \A n \in DateValues, u \in 1..Len(AgoUnits), plural \in {<<>>, <<"s">>} :
             call.text = Numeral(n) \o <<" ">> \o AgoUnits[u] \o plural \o <<" ">> \o W_ago =>
                 result.value = Minus(call.now, n * AgoUnitDays[u], n * AgoUnitSecs[u])

\* C15, amended: "N <unit> ago" is now minus N units when that instant is
\* not before the year 1, and unparseable when it is; "just now" is now.
C15_AgoFormInRange ==
    Returned("parse_date") =>
        /\ call.text = W_just_now => result.value = call.now
        /\ \A n \in DateValues, u \in 1..Len(AgoUnits), plural \in {<<>>, <<"s">>} :
             call.text = Numeral(n) \o <<" ">> \o AgoUnits[u] \o plural \o <<" ">> \o W_ago =>
                 result.value =
                     IF Minus(call.now, n * AgoUnitDays[u], n * AgoUnitSecs[u]).day >= MinDay
                     THEN Minus(call.now, n * AgoUnitDays[u], n * AgoUnitSecs[u])
                     ELSE None

\* C15's case: parse_date has returned the instant 1350 days before now
\* for "45 months ago".
C15_Witness ==
    /\ Returned("parse_date")
    /\ call.text = <<"4", "5", " ", "m", "o", "n", "t", "h", "s", " ", "a", "g", "o">>
    /\ result.value = Minus(call.now, 1350, 0)

\* The durations of the units of the compact form, in the order of
\* ShortUnits: s, m, h, d, w, mo (30 days), yr (365 days).
ShortUnitDays == <<0, 0, 0, 1, 7, 30, 365>>
ShortUnitSecs == <<1, 60, 3600, 0, 0, 0, 0>>

\* C16: the compact "<N><u>" is now minus N units, for every unit
\* s, m, h, d, w, mo, yr.
C16_CompactForm ==
    Returned("parse_date") =>
        \A n \in DateValues, u \in 1..Len(ShortUnits) :
            call.text = Numeral(n) \o ShortUnits[u] =>
                result.value = Minus(call.now, n * ShortUnitDays[u], n * ShortUnitSecs[u])

\* C17: a text of none of the four recognised forms is unparseable.
C17_OtherTextsUnparseable ==
    Returned("parse_date") =>
        (call.text \in UnrecognisedTexts => result.value = None)

\* The text begins with an activity phrase, letters in any case.
BeginsWithActivity(text) ==
    \E a \in 1..Len(ActivityTexts) : StartsAt(Lower(text), 1, ActivityTexts[a])

\* An activity phrase stands at the start of the text, or at the start of
\* a later line with the line break and the phrase inside the first 50
\* characters.
HasActivityPrefix(text) ==
    \/ BeginsWithActivity(text)
    \/ \E a \in 1..Len(ActivityTexts), i \in 1..Len(text) :
         /\ text[i] = "\n"
         /\ i + Len(ActivityTexts[a]) <= 50
         /\ StartsAt(Lower(text), i + 1, ActivityTexts[a])

\* A content selector finds an element whose trimmed text is not empty.
HasContent(post) ==
    \E i \in 1..Len(post.content) :
        post.content[i].sel \in 1..5 /\ Strip(post.content[i].text) # <<>>

C19_EndToEndScenario ==
    (ppc = "extracted" /\ browser_page \in ScenarioPages) =>
        /\ Len(posts) = 2
        /\ posts[1].post_text = <<"H", "e", "l", "l", "o", " ", "#", "A", "I", " ", "#", "T", "e", "c", "h">>
        /\ posts[1].hashtags = Join(<<<<"#", "A", "I">>, <<"#", "T", "e", "c", "h">>>>)
        /\ posts[1].hashtag_count = 2
        /\ posts[1].reactions = Whole(42)
        /\ posts[1].comments = Whole(5)
        /\ posts[1].total_engagement = Whole(47)
        /\ posts[2].post_text = <<"W", "o", "r", "l", "d">>
        /\ posts[2].total_engagement = Whole(0)

(***************************************************************************)
(* Claim about the writer inside a run (checked under Spec)                *)
(***************************************************************************)
\* C20: a writer call that returned has written the per-session file with
\* exactly the records of the run, none removed, also when the run has no
\* records; and every read or write of the cumulative file comes after the
\* write of the per-session file.
C20_SessionFileFirst ==
    /\ ret.kind = "returned" =>
         /\ session_file.exists
         /\ session_file.rows = to_csv(run_posts)
    /\ \A b \in 1..Len(events) :
         events[b].step \in {"cumulative_read", "cumulative_write"} =>
             \E a \in 1..(b - 1) : events[a] = Event("session_write", 0, TRUE, 0)

(***************************************************************************)
(* Claims about the materializer and the debug captures                    *)
(***************************************************************************)
\* C21: the materializer never raises, and a failure inside it is never
\* fatal to the profile: the profile does not end Failed because of it and,
\* once the profile is left, extraction was attempted on it.  (Checked
\* under Spec.)
C21_MaterializerNeverFatal ==
    \A b \in 1..Len(events) :
        events[b].step \in {"materialize", "materialize_raised"} =>
            /\ events[b].step = "materialize"
            /\ status[events[b].profile] # "Failed"
            /\ idx > events[b].profile =>
                  \E c \in (b + 1)..Len(events) :
                      /\ events[c].step = "extract"
                      /\ events[c].profile = events[b].profile

\* C22: the debug captures are purely observational: extract_posts writes no
\* screenshot when debug is disabled, and it returns the records it returns
\* on the same page with debug disabled, also when a capture itself fails.
\* (Checked under SpecPost.)
C22_DebugObservational ==
    ppc = "extracted" =>
        /\ ~self_debug => captures = <<>>
        /\ posts = extract_posts(WithCaptures(browser_page, FALSE),
                                 self_max_posts, clock, 1)

(***************************************************************************)
(* Claims about the locator and the extractors (checked under SpecPost)    *)
(***************************************************************************)
\* The first selector, in list order, that finds a container (0: none).
FirstHit ==
    IF \A k \in 1..Len(browser_page.matches) : browser_page.matches[k] = <<>> THEN 0
    ELSE CHOOSE k \in 1..Len(browser_page.matches) :
            /\ browser_page.matches[k] # <<>>
            /\ \A j \in 1..(k - 1) : browser_page.matches[j] = <<>>

\* The first ContainerCap matches of that selector alone, in page order.
Located ==
    IF FirstHit = 0 THEN <<>>
    ELSE [i \in 1..Min(Len(browser_page.matches[FirstHit]), ContainerCap) |->
            WithCaptures(browser_page, self_debug).matches[FirstHit][i]]

\* C23: the records of a page are made of the matches of the first selector,
\* in the fixed order, that yields any, never of a later selector's matches
\* and never of a merge; of at most the first 15 of them, in page order;
\* and there are no posts when no selector matches.
C23_FirstSelectorOnly ==
    (ppc = "extracted" /\ ~browser_page.extract_raises) =>
        /\ posts = PostLoop(Located, 1, 0, browser_page, self_max_posts, clock, 1)
        /\ FirstHit = 0 => posts = <<>>

\* C23's case: the first selector finds nothing, the second and the third
\* both find a container, and the one record is the second selector's post.
C23_Witness ==
    /\ ppc = "extracted"
    /\ browser_page.matches[1] = <<>>
    /\ browser_page.matches[2] # <<>>
    /\ browser_page.matches[3] # <<>>
    /\ posts = <<PostRecord(browser_page.matches[2][1], browser_page, clock, 1)>>

\* The three engagement values of a record.
EngagementOf(r) == [reactions |-> r.reactions, comments |-> r.comments, reposts |-> r.reposts]

\* The first of three results, in order, that has a non-zero count.
FirstNonZero(s1, s2, s3) ==
    IF ~AllZero(s1) THEN s1
    ELSE IF ~AllZero(s2) THEN s2
    ELSE IF ~AllZero(s3) THEN s3
    ELSE Zeros

\* What the three strategies give on container c, each taken alone.
ChosenStrategy(c) ==
    IF c.engagement_raises THEN Zeros
    ELSE FirstNonZero(Strategy1(TextsOf(c.els, "social")),
                      SelectorCounts(c.els),
                      ScanElements(c.els, 1, Zeros))

\* C24: the engagement extractor applies its three strategies in order and
\* stops at the first that yields a non-zero count: the triple of a record
\* is exactly that strategy's result, and zeros when all three yield zeros
\* or the extractor fails inside.
C24_FirstNonZeroStrategy ==
    ppc = "extracted" =>
        \A i \in 1..Len(posts) :
            EngagementOf(posts[i]) = ChosenStrategy(SelectSeq(Candidates, IsProcessed)[i])

\* C24's case: the aggregate container yields zeros, the per-category
\* selectors yield a count, and the record carries the selectors' triple.
C24_Witness ==
    /\ ppc = "extracted"
    /\ Len(posts) = 1
    /\ Len(Candidates) = 1
    /\ TextsOf(Candidates[1].els, "social") # <<>>
    /\ AllZero(Strategy1(TextsOf(Candidates[1].els, "social")))
    /\ ~AllZero(SelectorCounts(Candidates[1].els))
    /\ EngagementOf(posts[1]) = SelectorCounts(Candidates[1].els)

\* C25: the raw date text of a record is always either "Unknown date" or a
\* trimmed text that contains one of the date indicators, whether it comes
\* from a date selector or from the fallback.
C25_DateTextHasIndicator ==
    \A i \in 1..Len(posts) :
        \/ posts[i].post_date_text = W_Unknown_date
        \/ /\ posts[i].post_date_text = Strip(posts[i].post_date_text)
           /\ posts[i].post_date_text # <<>>
           /\ HasIndicator(posts[i].post_date_text)

\* The hashtags a hashtags field lists, in the order of the field.
ListedTags(field) == FindHashtags(field, 1)

\* C26: the hashtags field of a record lists each distinct hashtag of the
\* post text once, in order of first appearance; hashtag_count is the
\* number of hashtags in the field and post_length the length of post_text.
C26_HashtagsDistinct ==
    \A i \in 1..Len(posts) :
        /\ \A a, b \in 1..Len(ListedTags(posts[i].hashtags)) :
               a # b => ListedTags(posts[i].hashtags)[a] # ListedTags(posts[i].hashtags)[b]
        /\ \A a \in 1..Len(FindHashtags(posts[i].post_text, 1)) :
               \E b \in 1..Len(ListedTags(posts[i].hashtags)) :
                   ListedTags(posts[i].hashtags)[b] = FindHashtags(posts[i].post_text, 1)[a]
        /\ posts[i].hashtag_count = Len(ListedTags(posts[i].hashtags))
        /\ posts[i].post_length = Len(posts[i].post_text)

(***************************************************************************)
(* Claim about the cumulative file across runs (checked under SpecWriter)  *)
(***************************************************************************)
\* The first row of a file that carries key k.
FirstWithKey(rows, k) ==
    rows[CHOOSE i \in 1..Len(rows) :
            /\ Key(rows[i]) = k
            /\ \A j \in 1..(i - 1) : Key(rows[j]) # k]

\* C27: the cumulative dataset is never truncated: every key present in the
\* cumulative file before a writer step is present after it with the same
\* record, and a run with zero records leaves the file unchanged.
C27_NeverTruncated ==
    op # "none" =>
        /\ \A i \in 1..Len(cum_before.rows) :
              /\ \E j \in 1..Len(output_file.rows) :
                    Key(output_file.rows[j]) = Key(cum_before.rows[i])
              /\ FirstWithKey(output_file.rows, Key(cum_before.rows[i]))
                    = FirstWithKey(cum_before.rows, Key(cum_before.rows[i]))
        /\ last_posts = <<>> => output_file = cum_before

(***************************************************************************)
(* Claim about navigation without authentication (checked under            *)
(* SpecScrape)                                                             *)
(***************************************************************************)
\* C28: when the login that navigate_to_profile triggers ends
\* unauthenticated, no profile page is loaded for that profile and the
\* profile fails, and no login is attempted again for a later profile of
\* the run; so a profile page is loaded only while the flag is set.
C28_NoNavigationUnauthenticated ==
    \A a \in 1..Len(events) :
        (events[a].step = "login" /\ ~events[a].ok) =>
            /\ \A b \in (a + 1)..Len(events) :
                  /\ ~(events[b].step = "navigate" /\ events[b].ok)
                  /\ events[b].step \notin {"login", "login_raised"}
            /\ status[events[a].profile] = "Failed"

(***************************************************************************)
(* Claims about the limits and the text of a record (checked under         *)
(* SpecPost)                                                               *)
(***************************************************************************)
\* C29: for every limit max_posts >= 0 and every page, extract_posts returns
\* at most max_posts records and at most 15, all of them the records of
\* containers classified original, in page order, none skipped.
C29_AtMostMaxPosts ==
    ppc = "extracted" =>
        /\ Len(posts) <= self_max_posts
        /\ Len(posts) <= ContainerCap
        /\ Len(posts) <= Len(SelectSeq(Candidates, IsProcessed))
        /\ \A i \in 1..Len(posts) :
              posts[i] = PostRecord(SelectSeq(Candidates, IsProcessed)[i],
                                    browser_page, clock, 1)

\* The text as extract_post_text cleans it (lines 562-565).
Cleaned(t) == Strip(CollapseSpaces(CollapseBlankLines(t, 1), 1))

\* The texts of container c a record can carry: the cleaned text of one of
\* its content elements or of the nodes the fallback script reads.
ContainerTexts(c) ==
    {Cleaned(Strip(c.content[k].text)) : k \in 1..Len(c.content)} \cup {Cleaned(c.js_text)}

\* C30: every record made of a container classified original has a
\* non-empty post_text that is text of that container and never the error
\* placeholder, whichever content selector made the classifier accept.
C30_TextOfContainer ==
    ppc = "extracted" =>
        \A i \in 1..Len(posts) :
            /\ posts[i].post_text # <<>>
            /\ posts[i].post_text # W_Error_extracting_text
            /\ posts[i].post_text \in ContainerTexts(SelectSeq(Candidates, IsProcessed)[i])

====
